---- MODULE Spec2Model ----
(***************************************************************************)
(* Entry lifecycle of backend/automation/entry_updater.py (EntryUpdater).  *)
(*                                                                         *)
(* State is what the updater owns or joins against, for one (symbol,       *)
(* timeframe) stream:                                                      *)
(*   signals        - the BUY-class rows of the signals table, which       *)
(*                    get_new_entry_signals joins against entry_tracking   *)
(*   entry_tracking - one row per entry                                    *)
(*   run            - for each run of the updater in flight, where it is   *)
(*                    and what it has read and not yet handled             *)
(*   errors         - the create_entry calls that printed "Error creating  *)
(*                    entry", as <<run, signal_id>>                        *)
(* The newest candle's close and the newest signal's label, which a run    *)
(* reads through get_latest_candle_price and get_latest_signal, are inputs *)
(* of the run; either may be unavailable (None).                           *)
(*                                                                         *)
(* Prices are integers on a grid; percentages and exit levels are exact    *)
(* rationals [num, den] in lowest terms, so that the comparisons of the    *)
(* code (>=, <=, <, >) are decided exactly.  datetime.now() is the token   *)
(* Now; a NULL column is NoTime / NoPrice / RNone / NoText.                *)
(***************************************************************************)
EXTENDS Integers, Sequences, FiniteSets, TLC

VARIABLES timeframe, signals, entry_tracking, run, errors,
          settings, data, sr, magic_line, generated, candles

\* the state of the signal scorer: its loaded settings, the indicator row of
\* the candle being scored, the effective levels, what generate_signal
\* returned for it, and the indicator rows of the stream's candles (oldest
\* first, the candle id is the position)
scorer == <<settings, data, sr, magic_line, generated, candles>>

vars == <<timeframe, signals, entry_tracking, run, errors, scorer>>

-----------------------------------------------------------------------------
(* Bounds of the model *)

\* ids of the BUY-class signals the signal generator stores for the stream
SignalIds == {1}

\* a run is not started once an entry has spent this many ticks VALIDATING
MaxValidationTicks == 4

\* close prices the exchange may report
Prices == {98, 99, 100, 101, 103}

\* closes of the candles on which a BUY-class signal is generated
EntryPrices == {100}

\* signals stored one candle at a time before a backlog is processed
MaxSingleSignals == 2

\* rows the signals table may hold in the backlog specification
MaxStoredSignals == 102

\* labels of the signals of a backlog, and the close a run may read then
BacklogLabels == {"BUY", "WATCH"}
BacklogPrices == {101}

\* closes and labels a run may read while another run is in flight, and
\* the timeframe of the stream then
OverlapPrices == {99, 101, 103}
OverlapSignals == {"BUY", "SELL"}
OverlapTimeframes == { [num |-> 4, suffix |-> "h"] }

\* runs of the updater that may be in flight at the same time
Runs == {1, 2}

\* timeframe strings as (leading integer, suffix): "4h", "1d", "1W"
Timeframes ==
    { [num |-> 4, suffix |-> "h"], [num |-> 1, suffix |-> "d"],
      [num |-> 1, suffix |-> "W"] }

-----------------------------------------------------------------------------
(* NULL values *)

NoPrice == 0
NoTime == "NULL"
NoText == "NULL"
Now == "now"
RNone == [num |-> 0, den |-> 0]

\* two streams of one symbol: their timeframes, the ids and labels of their
\* signals, the closes of the signals' candles (a candle may carry no usable
\* close), and the closes and labels a run may read
StreamTimeframes == { [num |-> 4, suffix |-> "h"], [num |-> 1, suffix |-> "d"] }
StreamSignalIds == {1, 2}
StreamLabels == {"BUY", "EARLY-BUY"}
StreamCloses == {100, NoPrice}
StreamPrices == {99, 101}
StreamSignals == {"BUY"}

-----------------------------------------------------------------------------
(* Exact arithmetic on the floats of the code *)

Abs(n) == IF n < 0 THEN -n ELSE n

RECURSIVE GCD(_, _)
GCD(a, b) == IF b = 0 THEN a ELSE GCD(b, a % b)

\* n/d in lowest terms with a positive denominator (d # 0)
Frac(n, d) ==
    LET s == IF d < 0 THEN -1 ELSE 1
        g == GCD(Abs(n), Abs(d))
    IN  [num |-> (s * n) \div g, den |-> (s * d) \div g]

R(n) == [num |-> n, den |-> 1]
RAdd(a, b) == Frac(a.num * b.den + b.num * a.den, a.den * b.den)
RSub(a, b) == Frac(a.num * b.den - b.num * a.den, a.den * b.den)
RMul(a, b) == Frac(a.num * b.num, a.den * b.den)
RDiv(a, b) == Frac(a.num * b.den, a.den * b.num)
RNeg(a) == [num |-> -a.num, den |-> a.den]
RLe(a, b) == a.num * b.den <= b.num * a.den
RLt(a, b) == a.num * b.den < b.num * a.den
RMax(a, b) == IF RLt(a, b) THEN b ELSE a

-----------------------------------------------------------------------------
(* EntryUpdater.__init__ : settings, in percent *)

intraday_validation_pct == R(1)
intraday_invalidation_pct == R(1)
swing_validation_pct == R(1)
swing_invalidation_pct == R(2)
validation_window_bars == 3

breakeven_threshold == R(1)
exit1_below_entry == R(0)
exit2_below_entry == Frac(1, 2)
exit3_below_entry == R(1)

zone3_start == R(2)
zone3_lock_pct == R(50)
zone3_exit2_drop == R(1)
zone3_exit3_drop == R(1)

zone4_start == R(5)
zone4_lock_pct == R(60)
zone4_exit2_drop == Frac(3, 2)
zone4_exit3_drop == R(1)

zone5_start == R(10)
zone5_lock_pct == R(70)
zone5_exit1_drop == R(2)
zone5_exit2_drop == R(1)
zone5_exit3_drop == R(1)

SignalLabels == {"A-BUY", "BUY", "EARLY-BUY", "WATCH", "CAUTION", "SELL"}
BuyLabels == {"A-BUY", "BUY", "EARLY-BUY"}

-----------------------------------------------------------------------------
(* EntryUpdater.classify_timeframe *)

classify_timeframe(tf) ==
    LET minutes ==
            IF tf.suffix = "m" THEN tf.num
            ELSE IF tf.suffix = "h" THEN tf.num * 60
            ELSE IF tf.suffix = "d" \/ (tf.suffix = "D" /\ tf.num = 0) THEN 1440
            ELSE 60
    IN  IF minutes <= 240 THEN "Intraday" ELSE "Swing"

-----------------------------------------------------------------------------
(* ((price - entry_price) / entry_price) * 100 *)

ProfitPct(price, entry_price) ==
    RMul(RDiv(RSub(R(price), R(entry_price)), R(entry_price)), R(100))

\* 1 - pct / 100
OneMinusPct(pct) == RSub(R(1), RDiv(pct, R(100)))

\* the ladder with other zone 4 parameters and another zone 5 trail
ExitLadder(entry_price, peak_price, lock4, drop4, trail5) ==
    LET peak_profit_pct == ProfitPct(peak_price, entry_price)
        profit_gain == RSub(R(peak_price), R(entry_price))
        Cascade(exit1, drop2, drop3) ==
            LET exit2 == RMul(exit1, OneMinusPct(drop2))
                exit3 == RMul(exit2, OneMinusPct(drop3))
            IN  <<exit1, exit2, exit3>>
        Locked(lock_pct) ==
            RAdd(R(entry_price), RMul(profit_gain, RDiv(lock_pct, R(100))))
    IN  IF RLt(peak_profit_pct, breakeven_threshold)
          THEN <<R(0), R(0), R(0)>>
        ELSE IF RLt(peak_profit_pct, zone3_start)
          THEN << RMul(R(entry_price), OneMinusPct(exit1_below_entry)),
                  RMul(R(entry_price), OneMinusPct(exit2_below_entry)),
                  RMul(R(entry_price), OneMinusPct(exit3_below_entry)) >>
        ELSE IF RLt(peak_profit_pct, zone4_start)
          THEN Cascade(Locked(zone3_lock_pct), zone3_exit2_drop, zone3_exit3_drop)
        ELSE IF RLt(peak_profit_pct, zone5_start)
          THEN Cascade(Locked(lock4), drop4, zone4_exit3_drop)
        ELSE Cascade(RMax(Locked(zone5_lock_pct),
                          RMul(R(peak_price), OneMinusPct(trail5))),
                     zone5_exit2_drop, zone5_exit3_drop)

\* zone 4 with the 1% cascade of the other zones
calculate_exit_levels_even_cascade(entry_price, peak_price) ==
    ExitLadder(entry_price, peak_price, zone4_lock_pct, zone3_exit2_drop,
               zone5_exit1_drop)

\* zone 4 locking less of the gain than zone 3
calculate_exit_levels_lock_less(entry_price, peak_price) ==
    ExitLadder(entry_price, peak_price, R(40), zone4_exit2_drop,
               zone5_exit1_drop)

\* zone 5 trailing 5% under the peak
calculate_exit_levels_wide_trail(entry_price, peak_price) ==
    ExitLadder(entry_price, peak_price, zone4_lock_pct, zone4_exit2_drop, R(5))

(* EntryUpdater.calculate_exit_levels : <<exit1, exit2, exit3>> *)
calculate_exit_levels(entry_price, peak_price) ==
    LET peak_profit_pct == ProfitPct(peak_price, entry_price)
        profit_gain == RSub(R(peak_price), R(entry_price))
        Cascade(exit1, drop2, drop3) ==
            LET exit2 == RMul(exit1, OneMinusPct(drop2))
                exit3 == RMul(exit2, OneMinusPct(drop3))
            IN  <<exit1, exit2, exit3>>
        Locked(lock_pct) ==
            RAdd(R(entry_price), RMul(profit_gain, RDiv(lock_pct, R(100))))
    IN  IF RLt(peak_profit_pct, breakeven_threshold)
          THEN <<R(0), R(0), R(0)>>
        ELSE IF RLt(peak_profit_pct, zone3_start)
          THEN << RMul(R(entry_price), OneMinusPct(exit1_below_entry)),
                  RMul(R(entry_price), OneMinusPct(exit2_below_entry)),
                  RMul(R(entry_price), OneMinusPct(exit3_below_entry)) >>
        ELSE IF RLt(peak_profit_pct, zone4_start)
          THEN Cascade(Locked(zone3_lock_pct), zone3_exit2_drop, zone3_exit3_drop)
        ELSE IF RLt(peak_profit_pct, zone5_start)
          THEN Cascade(Locked(zone4_lock_pct), zone4_exit2_drop, zone4_exit3_drop)
        ELSE Cascade(RMax(Locked(zone5_lock_pct),
                          RMul(R(peak_price), OneMinusPct(zone5_exit1_drop))),
                     zone5_exit2_drop, zone5_exit3_drop)

-----------------------------------------------------------------------------
(* signals rows as written by SignalGenerator.generate_signal for a candle   *)
(* of timeframe tf: entry_price = current_price = close of the candle       *)

SignalRow(label, close, tf) ==
    [signal |-> label, timeframe |-> tf,
     entry_price |-> close, current_price |-> close]

(* EntryUpdater.create_entry : the INSERT INTO entry_tracking *)
create_entry(signal_id, signal, tf) ==
    [ signal_id |-> signal_id,
      timeframe |-> tf,
      entry_signal |-> signal.signal,
      entry_price |-> signal.entry_price,
      validation_status |-> "VALIDATING",
      validation_datetime |-> NoTime,
      validation_candles_count |-> 0,
      max_validation_candles |-> validation_window_bars,
      exit_status |-> "ACTIVE",
      exit_datetime |-> NoTime,
      exit_price |-> NoPrice,
      exit_reason |-> NoText,
      peak_price |-> signal.current_price,
      peak_datetime |-> NoTime,
      current_price |-> signal.current_price,
      current_profit_pct |-> R(0),
      max_profit_pct |-> R(0),
      final_profit_pct |-> RNone,
      exit_1_hit |-> FALSE, exit_1_datetime |-> NoTime, exit_1_price |-> NoPrice,
      exit_2_hit |-> FALSE, exit_2_datetime |-> NoTime, exit_2_price |-> NoPrice,
      exit_3_hit |-> FALSE, exit_3_datetime |-> NoTime, exit_3_price |-> NoPrice,
      trailing_stop_price |-> RNone,
      trailing_stop_active |-> FALSE,
      recovery_attempt |-> FALSE,
      recovery_low_price |-> NoPrice,
      recovery_datetime |-> NoTime,
      active |-> TRUE ]

(* EntryUpdater.get_active_entries, row -> dict: "float(x) if x else None"  *)
(* turns a stored 0.0 into None                                             *)
FloatOrNone(x) == IF x = R(0) THEN RNone ELSE x

RowToDict(row) ==
    [row EXCEPT !.current_profit_pct = FloatOrNone(@),
                !.max_profit_pct = FloatOrNone(@),
                !.final_profit_pct = FloatOrNone(@),
                !.trailing_stop_price = FloatOrNone(@)]

\* "x or 0.0"
OrZero(x) == IF x = RNone THEN R(0) ELSE x

-----------------------------------------------------------------------------
(* Steps shared by process_validating_entry and process_validated_entry *)

\* variant: the peak follows the last price
UpdatePeak_last(entry, current_price) ==
    IF current_price # entry.peak_price
      THEN [entry EXCEPT !.peak_price = current_price, !.peak_datetime = Now]
      ELSE entry

\* "Update peak"
UpdatePeak(entry, current_price) ==
    IF current_price > entry.peak_price
      THEN [entry EXCEPT !.peak_price = current_price, !.peak_datetime = Now]
      ELSE entry

\* variant: every terminal exit marks the entry INVALID
TerminalExit_invalid(entry, reason, current_price, current_pct) ==
    [entry EXCEPT !.validation_status = "INVALID",
                  !.exit_status = "EXITED",
                  !.exit_reason = reason,
                  !.exit_datetime = Now,
                  !.exit_price = current_price,
                  !.final_profit_pct = current_pct,
                  !.active = FALSE]

\* variant: a terminal exit that does not record the final profit
TerminalExit_no_profit(entry, reason, current_price, current_pct) ==
    [entry EXCEPT !.exit_status = "EXITED",
                  !.exit_reason = reason,
                  !.exit_datetime = Now,
                  !.exit_price = current_price,
                  !.active = FALSE]

\* the terminal-exit assignments (exit_status, exit_reason, exit_datetime,
\* exit_price, final_profit_pct, active)
TerminalExit(entry, reason, current_price, current_pct) ==
    [entry EXCEPT !.exit_status = "EXITED",
                  !.exit_reason = reason,
                  !.exit_datetime = Now,
                  !.exit_price = current_price,
                  !.final_profit_pct = current_pct,
                  !.active = FALSE]

\* "Update counters" / "Update entry": current_price, current_profit_pct,
\* max_profit_pct
UpdateStats(entry, current_price, current_pct, peak_pct) ==
    [entry EXCEPT !.current_price = current_price,
                  !.current_profit_pct = current_pct,
                  !.max_profit_pct = RMax(OrZero(entry.max_profit_pct), peak_pct)]

-----------------------------------------------------------------------------
(* EntryUpdater.process_validating_entry *)

\* variant: Swing validates at the Swing invalidation percentage
ValidationPct_swapped(tf_type) ==
    IF tf_type = "Intraday" THEN intraday_validation_pct ELSE swing_invalidation_pct

ValidationPct(tf_type) ==
    IF tf_type = "Intraday" THEN intraday_validation_pct ELSE swing_validation_pct

InvalidationPct(tf_type) ==
    IF tf_type = "Intraday" THEN intraday_invalidation_pct
                            ELSE swing_invalidation_pct

\* "Track lowest for invalidation"
TrackLowest(entry, current_price) ==
    IF entry.recovery_low_price = NoPrice \/ current_price < entry.recovery_low_price
      THEN [entry EXCEPT !.recovery_low_price = current_price]
      ELSE entry

\* variant: an entry that has used up its validation window is invalidated
ValidationChecks_timeout(entry, current_price, current_signal, tf_type) ==
    LET current_pct == ProfitPct(current_price, entry.entry_price)
        peak_pct == ProfitPct(entry.peak_price, entry.entry_price)
        lowest_pct == ProfitPct(entry.recovery_low_price, entry.entry_price)
        validation_pct == ValidationPct(tf_type)
        invalidation_pct == InvalidationPct(tf_type)
        Invalid(reason) ==
            [TerminalExit(entry, reason, current_price, current_pct)
                EXCEPT !.validation_status = "INVALID"]
    IN  IF RLe(validation_pct, peak_pct)
          THEN [entry EXCEPT !.validation_status = "VALIDATED",
                             !.validation_datetime = Now,
                             !.exit_status = "ACTIVE"]
        ELSE IF RLe(lowest_pct, RNeg(invalidation_pct))
          THEN Invalid("PRICE_DROP")
        ELSE IF current_signal = "CAUTION"
          THEN Invalid("CAUTION_SIGNAL")
        ELSE IF current_signal = "WATCH"
                /\ RLe(lowest_pct, RNeg(RMul(invalidation_pct, Frac(11, 10))))
          THEN Invalid("WATCH_PRICE_DROP")
        ELSE IF entry.validation_candles_count >= entry.max_validation_candles
          THEN Invalid("VALIDATION_TIMEOUT")
        ELSE entry

\* variant: the WATCH + drop test comes before the price-drop test
ValidationChecks_watch_first(entry, current_price, current_signal, tf_type) ==
    LET current_pct == ProfitPct(current_price, entry.entry_price)
        peak_pct == ProfitPct(entry.peak_price, entry.entry_price)
        lowest_pct == ProfitPct(entry.recovery_low_price, entry.entry_price)
        validation_pct == ValidationPct(tf_type)
        invalidation_pct == InvalidationPct(tf_type)
        Invalid(reason) ==
            [TerminalExit(entry, reason, current_price, current_pct)
                EXCEPT !.validation_status = "INVALID"]
    IN  IF RLe(validation_pct, peak_pct)
          THEN [entry EXCEPT !.validation_status = "VALIDATED",
                             !.validation_datetime = Now,
                             !.exit_status = "ACTIVE"]
        ELSE IF current_signal = "WATCH"
                /\ RLe(lowest_pct, RNeg(RMul(invalidation_pct, Frac(11, 10))))
          THEN Invalid("WATCH_PRICE_DROP")
        ELSE IF RLe(lowest_pct, RNeg(invalidation_pct))
          THEN Invalid("PRICE_DROP")
        ELSE IF current_signal = "CAUTION"
          THEN Invalid("CAUTION_SIGNAL")
        ELSE entry

\* the if / elif chain: VALIDATION, INVALIDATION, CAUTION, WATCH + drop
ValidationChecks(entry, current_price, current_signal, tf_type) ==
    LET current_pct == ProfitPct(current_price, entry.entry_price)
        peak_pct == ProfitPct(entry.peak_price, entry.entry_price)
        lowest_pct == ProfitPct(entry.recovery_low_price, entry.entry_price)
        validation_pct == ValidationPct(tf_type)
        invalidation_pct == InvalidationPct(tf_type)
        Invalid(reason) ==
            [TerminalExit(entry, reason, current_price, current_pct)
                EXCEPT !.validation_status = "INVALID"]
    IN  IF RLe(validation_pct, peak_pct)
          THEN [entry EXCEPT !.validation_status = "VALIDATED",
                             !.validation_datetime = Now,
                             !.exit_status = "ACTIVE"]
        ELSE IF RLe(lowest_pct, RNeg(invalidation_pct))
          THEN Invalid("PRICE_DROP")
        ELSE IF current_signal = "CAUTION"
          THEN Invalid("CAUTION_SIGNAL")
        ELSE IF current_signal = "WATCH"
                /\ RLe(lowest_pct, RNeg(RMul(invalidation_pct, Frac(11, 10))))
          THEN Invalid("WATCH_PRICE_DROP")
        ELSE entry

process_validating_entry(entry, current_price, current_signal) ==
    LET tf_type == classify_timeframe(entry.timeframe)
        peaked == UpdatePeak(entry, current_price)
        current_pct == ProfitPct(current_price, entry.entry_price)
        peak_pct == ProfitPct(peaked.peak_price, entry.entry_price)
        lowest == TrackLowest(peaked, current_price)
        checked == ValidationChecks(lowest, current_price, current_signal, tf_type)
        counted == [checked EXCEPT !.validation_candles_count =
                                       entry.validation_candles_count + 1]
    IN  UpdateStats(counted, current_price, current_pct, peak_pct)

-----------------------------------------------------------------------------
(* EntryUpdater.process_validated_entry *)

\* "Store trailing stop (EXIT-1 is the trailing stop)"
StoreTrailingStop(entry, exit1) ==
    IF RLt(R(0), exit1)
      THEN [entry EXCEPT !.trailing_stop_price = exit1,
                         !.trailing_stop_active = TRUE]
      ELSE entry

\* variant: only the deepest tier the price has crossed is marked
ExitLevelTracking_deepest(entry, current_price, levels) ==
    LET Crossed(level, hit) ==
            RLt(R(0), level) /\ RLe(R(current_price), level) /\ ~hit
    IN  IF Crossed(levels[3], entry.exit_3_hit)
          THEN [entry EXCEPT !.exit_3_hit = TRUE,
                             !.exit_3_datetime = Now,
                             !.exit_3_price = current_price,
                             !.exit_status = "EXIT-3"]
        ELSE IF Crossed(levels[2], entry.exit_2_hit)
          THEN [entry EXCEPT !.exit_2_hit = TRUE,
                             !.exit_2_datetime = Now,
                             !.exit_2_price = current_price,
                             !.exit_status = "EXIT-2"]
        ELSE IF Crossed(levels[1], entry.exit_1_hit)
          THEN [entry EXCEPT !.exit_1_hit = TRUE,
                             !.exit_1_datetime = Now,
                             !.exit_1_price = current_price,
                             !.exit_status = "EXIT-1"]
        ELSE entry

\* "EXIT LEVEL TRACKING": the three independent ifs, in order
ExitLevelTracking(entry, current_price, levels) ==
    LET Crossed(level, hit) ==
            RLt(R(0), level) /\ RLe(R(current_price), level) /\ ~hit
        t1 == IF Crossed(levels[1], entry.exit_1_hit)
                THEN [entry EXCEPT !.exit_1_hit = TRUE,
                                   !.exit_1_datetime = Now,
                                   !.exit_1_price = current_price,
                                   !.exit_status = "EXIT-1"]
                ELSE entry
        t2 == IF Crossed(levels[2], t1.exit_2_hit)
                THEN [t1 EXCEPT !.exit_2_hit = TRUE,
                                !.exit_2_datetime = Now,
                                !.exit_2_price = current_price,
                                !.exit_status = "EXIT-2"]
                ELSE t1
    IN  IF Crossed(levels[3], t2.exit_3_hit)
          THEN [t2 EXCEPT !.exit_3_hit = TRUE,
                          !.exit_3_datetime = Now,
                          !.exit_3_price = current_price,
                          !.exit_status = "EXIT-3"]
          ELSE t2

\* variant: a recovery also clears the hit flag of the tier it leaves
CheckRecovery_clearing(entry, current_price, levels) ==
    LET Recover(status) ==
            [entry EXCEPT !.exit_status = status,
                          !.recovery_attempt = TRUE,
                          !.recovery_datetime = Now]
    IN  IF entry.exit_3_hit /\ RLt(levels[3], R(current_price))
          THEN [Recover("EXIT-2") EXCEPT !.exit_3_hit = FALSE]
        ELSE IF entry.exit_2_hit /\ ~entry.exit_3_hit
                /\ RLt(levels[2], R(current_price))
          THEN [Recover("EXIT-1") EXCEPT !.exit_2_hit = FALSE]
        ELSE IF entry.exit_1_hit /\ ~entry.exit_2_hit
                /\ RLt(levels[1], R(current_price))
          THEN [Recover("ACTIVE") EXCEPT !.exit_1_hit = FALSE]
        ELSE entry

\* variant: the EXIT-2 recovery compares the price with exit1
CheckRecovery_exit1(entry, current_price, levels) ==
    LET Recover(status) ==
            [entry EXCEPT !.exit_status = status,
                          !.recovery_attempt = TRUE,
                          !.recovery_datetime = Now]
    IN  IF entry.exit_3_hit /\ RLt(levels[3], R(current_price))
          THEN Recover("EXIT-2")
        ELSE IF entry.exit_2_hit /\ ~entry.exit_3_hit
                /\ RLt(levels[1], R(current_price))
          THEN Recover("EXIT-1")
        ELSE IF entry.exit_1_hit /\ ~entry.exit_2_hit
                /\ RLt(levels[1], R(current_price))
          THEN Recover("ACTIVE")
        ELSE entry

\* "Check RECOVERY (price moving back up)": the if / elif / elif
CheckRecovery(entry, current_price, levels) ==
    LET Recover(status) ==
            [entry EXCEPT !.exit_status = status,
                          !.recovery_attempt = TRUE,
                          !.recovery_datetime = Now]
    IN  IF entry.exit_3_hit /\ RLt(levels[3], R(current_price))
          THEN Recover("EXIT-2")
        ELSE IF entry.exit_2_hit /\ ~entry.exit_3_hit
                /\ RLt(levels[2], R(current_price))
          THEN Recover("EXIT-1")
        ELSE IF entry.exit_1_hit /\ ~entry.exit_2_hit
                /\ RLt(levels[1], R(current_price))
          THEN Recover("ACTIVE")
        ELSE entry

\* variant: the final exit looks at exit_status instead of the sticky flag
FinalExit_status(entry, current_price, current_signal, current_pct) ==
    IF entry.exit_status = "EXIT-3" /\ current_signal \in {"WATCH", "CAUTION"}
      THEN TerminalExit(entry,
                        IF current_signal = "WATCH" THEN "EXIT3_WATCH"
                                                    ELSE "EXIT3_CAUTION",
                        current_price, current_pct)
      ELSE entry

\* "Check EXIT-3 + weak signal = FINAL EXIT"
FinalExit(entry, current_price, current_signal, current_pct) ==
    IF entry.exit_3_hit /\ current_signal \in {"WATCH", "CAUTION"}
      THEN TerminalExit(entry,
                        IF current_signal = "WATCH" THEN "EXIT3_WATCH"
                                                    ELSE "EXIT3_CAUTION",
                        current_price, current_pct)
      ELSE entry

\* everything after the priority checks: levels, trailing stop, tiers,
\* recovery, final exit, "Update entry"
TierProcessing(entry, current_price, current_signal) ==
    LET current_pct == ProfitPct(current_price, entry.entry_price)
        peak_pct == ProfitPct(entry.peak_price, entry.entry_price)
        levels == calculate_exit_levels(entry.entry_price, entry.peak_price)
        stopped == StoreTrailingStop(entry, levels[1])
        tracked == ExitLevelTracking(stopped, current_price, levels)
        recovered == CheckRecovery(tracked, current_price, levels)
        final == FinalExit(recovered, current_price, current_signal, current_pct)
    IN  UpdateStats(final, current_price, current_pct, peak_pct)

\* variant: the signal checks run after the tier processing
process_validated_entry_late(entry, current_price, current_signal) ==
    LET peaked == UpdatePeak(entry, current_price)
        current_pct == ProfitPct(current_price, entry.entry_price)
        tiered == TierProcessing(peaked, current_price, current_signal)
    IN  IF current_signal = "SELL"
          THEN TerminalExit(tiered, "SELL_SIGNAL", current_price, current_pct)
        ELSE IF current_signal = "CAUTION"
          THEN TerminalExit(tiered, "CAUTION_SIGNAL", current_price, current_pct)
        ELSE tiered

process_validated_entry(entry, current_price, current_signal) ==
    LET peaked == UpdatePeak(entry, current_price)
        current_pct == ProfitPct(current_price, entry.entry_price)
    IN  IF current_signal = "SELL"
          THEN TerminalExit(peaked, "SELL_SIGNAL", current_price, current_pct)
        ELSE IF current_signal = "CAUTION"
          THEN TerminalExit(peaked, "CAUTION_SIGNAL", current_price, current_pct)
        ELSE TierProcessing(peaked, current_price, current_signal)

-----------------------------------------------------------------------------
(* EntryUpdater.process_all_entries (and step 4 of run_automation) *)

\* SQL "LIMIT 100" of get_new_entry_signals
NewSignalLimit == 100

\* F applied to the value of v
Bind(v, F(_)) == CHOOSE r \in { F(x) : x \in {v} } : TRUE

\* the ids of the signals table, newest first (signal ids grow with the
\* signal's datetime): ORDER BY s.datetime DESC
NewestFirst == [k \in DOMAIN signals |-> Len(signals) + 1 - k]

\* LIMIT n
Limit(rows, n) == IF Len(rows) <= n THEN rows ELSE SubSeq(rows, 1, n)

\* variant: the WHERE clause does not look at the signal's label
get_new_entry_signals_any_label ==
    Bind({ entry_tracking[i].signal_id : i \in DOMAIN entry_tracking },
         LAMBDA joined :
            Limit(SelectSeq(NewestFirst, LAMBDA id : id \notin joined),
                  NewSignalLimit))

\* get_new_entry_signals: BUY-class signals with no entry_tracking row,
\* newest first
get_new_entry_signals ==
    Bind({ entry_tracking[i].signal_id : i \in DOMAIN entry_tracking },
         LAMBDA joined :
            Limit(SelectSeq(NewestFirst,
                            LAMBDA id : /\ signals[id].signal \in BuyLabels
                                        /\ id \notin joined),
                  NewSignalLimit))

\* variant: the WHERE clause is missing
get_active_entries_unfiltered(table) == DOMAIN table

\* get_active_entries: WHERE active = TRUE
get_active_entries(table) == { i \in DOMAIN table : table[i].active }

\* the body of the update loop for one active entry: the row after
\* update_entry_in_db, or the untouched row when the entry is skipped
UpdateEntry(row, current_price, current_signal) ==
    IF current_price = NoPrice \/ current_signal = NoText THEN row
    ELSE IF row.validation_status = "VALIDATING"
      THEN process_validating_entry(RowToDict(row), current_price, current_signal)
    ELSE IF row.validation_status = "VALIDATED"
      THEN process_validated_entry(RowToDict(row), current_price, current_signal)
    ELSE row

\* the entry_tracking table refuses a second row for a signal_id (unique
\* reference to the originating signal)
SignalIdTaken(table, signal_id) ==
    \E i \in DOMAIN table : table[i].signal_id = signal_id

\* the INSERT of create_entry: the table afterwards
InsertEntry(table, signal_id) ==
    IF SignalIdTaken(table, signal_id) THEN table
    ELSE Append(table, create_entry(signal_id, signals[signal_id],
                                    signals[signal_id].timeframe))

\* the "for signal in new_signals" loop of Step 1, new_signals being rows
\* of distinct signals: the INSERTs that go through are those of the
\* signals with no row yet, in order
CreateAll(table, new_signals) ==
    Bind(SelectSeq(new_signals, LAMBDA id : ~SignalIdTaken(table, id)),
         LAMBDA inserted :
            table \o [n \in DOMAIN inserted |->
                        create_entry(inserted[n], signals[inserted[n]],
                                     signals[inserted[n]].timeframe)])

\* Step 1 of process_all_entries: one create_entry per new signal
CreateEntries == CreateAll(entry_tracking, get_new_entry_signals)

\* variant: a missing price or signal ends the loop ("break" for "continue")
UpdateEntriesOf_break(table, price_of, signal_of) ==
    LET active_entries == get_active_entries(table)
        stopping ==
            { j \in active_entries :
                 \/ price_of[table[j].timeframe] = NoPrice
                 \/ signal_of[table[j].timeframe] = NoText
                 \/ table[j].entry_price = NoPrice }
    IN  [i \in DOMAIN table |->
            IF /\ i \in active_entries
               /\ \A j \in stopping : table[j].signal_id < table[i].signal_id
              THEN UpdateEntry(table[i], price_of[table[i].timeframe],
                               signal_of[table[i].timeframe])
              ELSE table[i]]

\* Step 2 of process_all_entries.  price_of and signal_of give, for each
\* timeframe, what get_latest_candle_price and get_latest_signal return.
\* The loop visits the active entries newest first (ORDER BY entry_datetime
\* DESC) and has no exception handler: an entry whose entry_price is None
\* raises in the profit computation, before anything is written for it, and
\* the entries after it are not visited.
UpdateEntriesOf(table, price_of, signal_of) ==
    LET active_entries == get_active_entries(table)
        raising ==
            { j \in active_entries :
                 /\ table[j].entry_price = NoPrice
                 /\ price_of[table[j].timeframe] # NoPrice
                 /\ signal_of[table[j].timeframe] # NoText }
        \* the entries visited are those newer than signal id `stop`
        Visit(stop) ==
            [i \in DOMAIN table |->
                IF i \in active_entries /\ table[i].signal_id > stop
                  THEN UpdateEntry(table[i], price_of[table[i].timeframe],
                                   signal_of[table[i].timeframe])
                  ELSE table[i]]
    IN  IF raising = {} THEN Visit(0)
        ELSE Visit(CHOOSE id \in { table[j].signal_id : j \in raising } :
                      \A j \in raising : table[j].signal_id <= id)

\* Step 2 when every stream reports the same price and signal
UpdateEntries(table, current_price, current_signal) ==
    UpdateEntriesOf(table, [tf \in Timeframes |-> current_price],
                    [tf \in Timeframes |-> current_signal])

-----------------------------------------------------------------------------
(* SignalGenerator: settings and inputs                                     *)

\* absent indicator values: a float NaN and a NULL column (None); a NULL
\* text column is NoText
NaN == -1000000
Null == -2000000
RNaN == [num |-> 1, den |-> 0]

\* pd.notna
notna(x) == x \notin {NaN, Null}

\* _load_settings: the defaults
DefaultSettings ==
    [ price_action_bonus_points |-> 2,
      intraday_aggressive_buy_threshold |-> 29,
      intraday_buy_threshold |-> 23,
      intraday_early_buy_threshold |-> 18,
      intraday_watch_threshold |-> 13,
      intraday_caution_threshold |-> 9,
      swing_aggressive_buy_threshold |-> 33,
      swing_buy_threshold |-> 26,
      swing_early_buy_threshold |-> 21,
      swing_watch_threshold |-> 15,
      swing_caution_threshold |-> 10 ]

\* values of the price_action_bonus_points setting: the default and a larger
\* one stored in the settings table
BonusPoints == {2, 5}

ScorerSettings ==
    { [DefaultSettings EXCEPT !.price_action_bonus_points = b] :
         b \in BonusPoints }

\* timeframes of the scored candle: one per class
ScorerTimeframes == { [num |-> 4, suffix |-> "h"], [num |-> 1, suffix |-> "d"] }

TfTypes == {"Intraday", "Swing"}

\* closes of the scored candle
ScorerPrices == {100}

\* indicator values around that close
RsiValues == {25, 30, 45, 65, NaN}
\* (macd_histogram, macd_line)
MacdValues == { <<1, 1>>, <<1, -1>>, <<-1, -1>>, <<NaN, 1>> }
BbPositions == {"BB3↓", "BB1↓", "BB~"}
\* (ema_44, ema_100, ema_200)
EmaValues == { <<90, 90, 90>>, <<90, 110, 110>>, <<110, 110, 110>> }
\* (supertrend_1, supertrend_2)
SuperTrendValues == { <<95, 95>>, <<105, 95>>, <<105, 105>> }
VwapValues == {90, 100}
VolumeSignals == {"H", "N", "L"}
\* (adx, di_plus, di_minus, obv, obv_ma)
TrendValues == { <<30, 20, 15, 3, 2>>, <<20, 10, 15, 1, 2>> }
AtrValues == {2}

\* fetch_indicator_data found no candle
NoData == [candle_id |-> 0]

\* the rows fetch_indicator_data can return
Snapshots ==
    { [ candle_id |-> 1, current_price |-> price,
        rsi |-> rsi, macd_histogram |-> macd[1], macd_line |-> macd[2],
        bb_position |-> bb,
        ema_44 |-> ema[1], ema_100 |-> ema[2], ema_200 |-> ema[3],
        supertrend_1 |-> st[1], supertrend_2 |-> st[2],
        vwap |-> vwap, volume_signal |-> vol,
        adx |-> trend[1], di_plus |-> trend[2], di_minus |-> trend[3],
        obv |-> trend[4], obv_ma |-> trend[5], atr |-> atr ] :
        price \in ScorerPrices,
        rsi \in RsiValues, macd \in MacdValues, bb \in BbPositions,
        ema \in EmaValues, st \in SuperTrendValues, vwap \in VwapValues,
        vol \in VolumeSignals, trend \in TrendValues, atr \in AtrValues }

\* two rows with every indicator present: one that earns every component
\* and one that earns none
BaseRows ==
    { d \in Snapshots :
         \/ /\ d.rsi = 30 /\ d.macd_histogram = 1 /\ d.macd_line = 1
            /\ d.bb_position = "BB3↓" /\ d.ema_44 = 90 /\ d.ema_100 = 90
            /\ d.supertrend_1 = 95 /\ d.supertrend_2 = 95 /\ d.vwap = 90
            /\ d.volume_signal = "H" /\ d.adx = 30
         \/ /\ d.rsi = 65 /\ d.macd_histogram = -1
            /\ d.bb_position = "BB~" /\ d.ema_44 = 110
            /\ d.supertrend_1 = 105 /\ d.supertrend_2 = 105 /\ d.vwap = 100
            /\ d.volume_signal = "L" /\ d.adx = 20 }

\* the row that earns every component
HighRow == CHOOSE d \in BaseRows : d.rsi = 30

\* the indicator columns a row may lack besides rsi and macd_histogram
OptionalFields ==
    { "macd_line", "bb_position", "ema_44", "ema_100", "ema_200",
      "supertrend_1", "supertrend_2", "vwap", "volume_signal", "adx",
      "di_plus", "di_minus", "obv", "obv_ma", "atr" }

TextFields == {"bb_position", "volume_signal"}

\* the row d with the columns `fields` absent: NULL text, and `absent` (NaN
\* or Null) for the numeric ones
Without(d, fields, absent) ==
    [ f \in DOMAIN d |->
        IF f \notin fields THEN d[f]
        ELSE IF f \in TextFields THEN NoText
        ELSE absent ]

\* rows that lack one optional column, or all of them
AbsentRows ==
    { Without(d, fields, absent) :
        d \in BaseRows,
        fields \in { {f} : f \in OptionalFields } \cup {OptionalFields},
        absent \in {NaN, Null} }

\* (support, resistance, magic line) around the close; NoPrice is an unset
\* level: none, breakout, bounce, crossing, all three, bounce and crossing
\* under a far resistance
LevelValues ==
    { <<NoPrice, NoPrice, NoPrice>>, <<NoPrice, 99, NoPrice>>,
      <<99, NoPrice, NoPrice>>, <<NoPrice, NoPrice, 99>>,
      <<99, 99, 99>>, <<99, 120, 99>> }

-----------------------------------------------------------------------------
(* SignalGenerator: scoring                                                 *)

\* SignalGenerator.classify_timeframe
SignalGenerator_classify_timeframe(tf) ==
    LET minutes ==
            IF tf.suffix = "m" THEN tf.num
            ELSE IF tf.suffix = "h" THEN tf.num * 60
            ELSE IF tf.suffix = "d" \/ (tf.suffix = "D" /\ tf.num = 0) THEN 1440
            ELSE IF tf.suffix = "W" THEN 10080
            ELSE 60
    IN  IF minutes <= 240 THEN [tf_type |-> "Intraday", max_score |-> 36]
        ELSE [tf_type |-> "Swing", max_score |-> 41]

\* price above an indicator level that is present
Above(price, level) == notna(level) /\ level < price

calculate_score_components(d, tf_type) ==
    [ rsi |->
        IF ~notna(d.rsi) THEN R(0)
        ELSE IF d.rsi <= 30 THEN Frac(9, 2)
        ELSE IF d.rsi <= 40 THEN R(3)
        ELSE IF d.rsi <= 50 THEN R(2)
        ELSE IF d.rsi <= 60 THEN R(1)
        ELSE R(0),
      macd |->
        IF notna(d.macd_histogram) /\ d.macd_histogram > 0
        THEN (IF notna(d.macd_line) /\ d.macd_line > 0
              THEN R(5) ELSE Frac(7, 2))
        ELSE R(0),
      bb |->
        IF d.bb_position = "BB3↓" THEN R(6)
        ELSE IF d.bb_position = "BB2↓" THEN R(4)
        ELSE IF d.bb_position = "BB1↓" THEN R(2)
        ELSE R(0),
      ema_stack |->
        IF tf_type = "Intraday"
        THEN RAdd(IF Above(d.current_price, d.ema_44) THEN Frac(5, 2) ELSE R(0),
             RAdd(IF Above(d.current_price, d.ema_100) THEN R(2) ELSE R(0),
                  IF Above(d.current_price, d.ema_200) THEN Frac(3, 2) ELSE R(0)))
        ELSE RAdd(IF Above(d.current_price, d.ema_200) THEN R(5) ELSE R(0),
             RAdd(IF Above(d.current_price, d.ema_100) THEN R(3) ELSE R(0),
                  IF Above(d.current_price, d.ema_44) THEN R(1) ELSE R(0))),
      supertrend |->
        IF tf_type = "Intraday"
        THEN RAdd(IF Above(d.current_price, d.supertrend_1) THEN Frac(5, 2) ELSE R(0),
                  IF Above(d.current_price, d.supertrend_2) THEN Frac(5, 2) ELSE R(0))
        ELSE RAdd(IF Above(d.current_price, d.supertrend_2) THEN R(4) ELSE R(0),
                  IF Above(d.current_price, d.supertrend_1) THEN R(1) ELSE R(0)),
      vwap |->
        IF notna(d.vwap) /\ notna(d.current_price)
             /\ RLt(Frac(5, 1000), Frac(d.current_price - d.vwap, d.vwap))
        THEN R(2) ELSE R(0),
      volume |->
        IF d.volume_signal = "H" THEN R(2)
        ELSE IF d.volume_signal = "L" /\ tf_type = "Intraday" THEN Frac(-3, 2)
        ELSE R(0),
      adx |-> IF notna(d.adx) /\ d.adx > 25 THEN Frac(3, 2) ELSE R(0),
      di |->
        IF notna(d.di_plus) /\ notna(d.di_minus) /\ d.di_plus > d.di_minus
        THEN R(1) ELSE R(0),
      obv |->
        IF notna(d.obv) /\ notna(d.obv_ma) /\ d.obv > d.obv_ma
        THEN R(1) ELSE R(0) ]

\* the rules with the bounce from support tested before the breakout
calculate_price_action_bonus_bounce_first(current_price, support, resistance, magic) ==
    LET max_bonus == R(settings.price_action_bonus_points)
        price == R(current_price)
    IN  IF /\ support > 0
           /\ current_price >= support
           /\ RLe(price, RMul(R(support), Frac(102, 100)))
        THEN RMul(max_bonus, Frac(8, 10))
        ELSE IF resistance > 0 /\ RLe(RMul(R(resistance), Frac(1005, 1000)), price)
        THEN max_bonus
        ELSE IF /\ magic # NoPrice
                /\ magic > 0
                /\ current_price > magic
                /\ RLe(price, RMul(R(magic), Frac(102, 100)))
        THEN RMul(max_bonus, Frac(9, 10))
        ELSE R(0)

\* first matching rule of: breakout, bounce from support, crossing the magic
\* line
calculate_price_action_bonus(current_price, support, resistance, magic) ==
    LET max_bonus == R(settings.price_action_bonus_points)
        price == R(current_price)
    IN  IF resistance > 0 /\ RLe(RMul(R(resistance), Frac(1005, 1000)), price)
        THEN max_bonus
        ELSE IF /\ support > 0
                /\ current_price >= support
                /\ RLe(price, RMul(R(support), Frac(102, 100)))
        THEN RMul(max_bonus, Frac(8, 10))
        ELSE IF /\ magic # NoPrice
                /\ magic > 0
                /\ current_price > magic
                /\ RLe(price, RMul(R(magic), Frac(102, 100)))
        THEN RMul(max_bonus, Frac(9, 10))
        ELSE R(0)

\* sum(scores.values())
SumScores(scores) ==
    RAdd(scores.rsi, RAdd(scores.macd, RAdd(scores.bb, RAdd(scores.ema_stack,
    RAdd(scores.supertrend, RAdd(scores.vwap, RAdd(scores.volume,
    RAdd(scores.adx, RAdd(scores.di, scores.obv)))))))))

MaxScore(tf_type) == IF tf_type = "Intraday" THEN R(36) ELSE R(41)

\* min(a, b) of Python: b when b < a, else a
RMin(a, b) == IF RLt(b, a) THEN b ELSE a

calculate_total_score_uncapped(scores, price_action_bonus, tf_type) ==
    RAdd(SumScores(scores), price_action_bonus)

calculate_total_score(scores, price_action_bonus, tf_type) ==
    RMin(RAdd(SumScores(scores), price_action_bonus), MaxScore(tf_type))

\* the five thresholds of a class, read from the settings
Thresholds(tf_type) ==
    IF tf_type = "Intraday"
    THEN [ aggressive_buy |-> settings.intraday_aggressive_buy_threshold,
           buy |-> settings.intraday_buy_threshold,
           early_buy |-> settings.intraday_early_buy_threshold,
           watch |-> settings.intraday_watch_threshold,
           caution |-> settings.intraday_caution_threshold ]
    ELSE [ aggressive_buy |-> settings.swing_aggressive_buy_threshold,
           buy |-> settings.swing_buy_threshold,
           early_buy |-> settings.swing_early_buy_threshold,
           watch |-> settings.swing_watch_threshold,
           caution |-> settings.swing_caution_threshold ]

classify_signal_ungated(score, tf_type, d) ==
    LET t == Thresholds(tf_type)
    IN  IF RLe(R(t.aggressive_buy), score) THEN "A-BUY"
        ELSE IF RLe(R(t.buy), score) THEN "BUY"
        ELSE IF RLe(R(t.early_buy), score) THEN "EARLY-BUY"
        ELSE IF RLe(R(t.watch), score) THEN "WATCH"
        ELSE IF RLe(R(t.caution), score) THEN "CAUTION"
        ELSE "SELL"

classify_signal_below(score, tf_type, d) ==
    LET t == Thresholds(tf_type)
        rsi == IF notna(d.rsi) THEN d.rsi ELSE 50
        rsi_safe == rsi >= 30
    IN  IF RLe(R(t.aggressive_buy), score) /\ rsi_safe THEN "A-BUY"
        ELSE IF RLe(R(t.buy), score) /\ rsi_safe THEN "BUY"
        ELSE IF RLe(score, R(t.early_buy)) THEN "EARLY-BUY"
        ELSE IF RLe(R(t.watch), score) THEN "WATCH"
        ELSE IF RLe(R(t.caution), score) THEN "CAUTION"
        ELSE "SELL"

classify_signal(score, tf_type, d) ==
    LET t == Thresholds(tf_type)
        rsi == IF notna(d.rsi) THEN d.rsi ELSE 50
        rsi_safe == rsi >= 30
    IN  IF RLe(R(t.aggressive_buy), score) /\ rsi_safe THEN "A-BUY"
        ELSE IF RLe(R(t.buy), score) /\ rsi_safe THEN "BUY"
        ELSE IF RLe(R(t.early_buy), score) THEN "EARLY-BUY"
        ELSE IF RLe(R(t.watch), score) THEN "WATCH"
        ELSE IF RLe(R(t.caution), score) THEN "CAUTION"
        ELSE "SELL"

\* generate_signal returned None
NoSignal == [signal |-> NoText]

\* generate_signal has not run for the candle
Pending == [signal |-> "pending"]

\* calculate_score_components raises: None > 0 for a NULL macd_line under a
\* positive histogram, or a division by a zero vwap
ScoringRaises(d) ==
    \/ d.macd_histogram > 0 /\ d.macd_line = Null
    \/ notna(d.current_price) /\ d.vwap = 0

\* the result dictionary generate_signal builds when nothing raises
SignalResult(d, levels, magic, tf) ==
    LET class == SignalGenerator_classify_timeframe(tf)
        tf_type == class.tf_type
        scores == calculate_score_components(d, tf_type)
        price_bonus ==
            calculate_price_action_bonus(d.current_price, levels.support,
                                         levels.resistance, magic)
        total_score == calculate_total_score(scores, price_bonus, tf_type)
        signal == classify_signal(total_score, tf_type, d)
        buying == signal \in BuyLabels
        atr_mult == IF tf_type = "Intraday" THEN Frac(12, 10) ELSE R(2)
        target_mult == IF tf_type = "Intraday" THEN R(2) ELSE R(4)
    IN  [ candle_id |-> d.candle_id,
          tf_type |-> tf_type,
          max_score |-> class.max_score,
          score_total |-> total_score,
          scores |-> scores,
          score_price_action_bonus |-> price_bonus,
          signal |-> signal,
          entry_price |-> IF buying THEN d.current_price ELSE NoPrice,
          stop_loss |->
              IF ~buying THEN RNone
              ELSE IF ~notna(d.atr) THEN RNaN
              ELSE RSub(R(d.current_price), RMul(R(d.atr), atr_mult)),
          target_price |->
              IF ~buying THEN RNone
              ELSE IF ~notna(d.atr) THEN RNaN
              ELSE RAdd(R(d.current_price), RMul(R(d.atr), target_mult)),
          current_price |-> d.current_price,
          support_level |-> levels.support,
          resistance_level |-> levels.resistance,
          magic_line_level |-> magic ]

generate_signal(d, levels, magic, tf) ==
    IF d = NoData THEN NoSignal
    ELSE IF ~notna(d.rsi) \/ ~notna(d.macd_histogram) THEN NoSignal
    ELSE IF ScoringRaises(d) THEN NoSignal
    ELSE Bind(SignalResult(d, levels, magic, tf),
              LAMBDA result :
                 \* None * atr_mult raises
                 IF d.atr = Null /\ result.signal \in BuyLabels
                 THEN NoSignal ELSE result)

\* HistoricalSignalsGenerator.generate_signal_for_candle: the same scoring
\* calls without the RSI and MACD precheck; entry, stop and target only for
\* A-BUY and BUY
generate_signal_for_candle(d, levels, magic, tf) ==
    IF d = NoData THEN NoSignal
    ELSE IF ScoringRaises(d) THEN NoSignal
    ELSE Bind(SignalResult(d, levels, magic, tf),
              LAMBDA result :
                 IF result.signal \in {"A-BUY", "BUY"}
                 THEN \* None * atr_mult raises
                      IF d.atr = Null THEN NoSignal ELSE result
                 ELSE [result EXCEPT !.entry_price = NoPrice,
                                     !.stop_loss = RNone,
                                     !.target_price = RNone])

-----------------------------------------------------------------------------
(* The state machine *)

\* a run that is not in flight
IdleRun == [pc |-> "idle", new_signals |-> <<>>, active_entries |-> <<>>]

Init ==
    /\ timeframe \in Timeframes
    /\ signals = <<>>
    /\ entry_tracking = <<>>
    /\ run = [r \in Runs |-> IdleRun]
    /\ errors = {}
    /\ settings = DefaultSettings
    /\ data = NoData
    /\ sr = [support |-> NoPrice, resistance |-> NoPrice]
    /\ magic_line = NoPrice
    /\ generated = Pending
    /\ candles = <<>>

\* SignalGenerator.store_signal of a BUY-class signal on a candle closing at
\* `close`
StoreSignal(label, close) ==
    /\ Len(signals) + 1 \in SignalIds
    /\ signals' = Append(signals, SignalRow(label, close, timeframe))
    /\ UNCHANGED <<timeframe, entry_tracking, run, errors, scorer>>

\* One run of process_all_entries; current_price and current_signal are what
\* get_latest_candle_price and get_latest_signal return during the run
ProcessAllEntries(current_price, current_signal) ==
    /\ \A i \in DOMAIN entry_tracking :
          (entry_tracking[i].active
             /\ entry_tracking[i].validation_status = "VALIDATING")
          => entry_tracking[i].validation_candles_count < MaxValidationTicks
    /\ \E created \in {CreateEntries} :
          entry_tracking' = UpdateEntries(created, current_price, current_signal)
    /\ UNCHANGED <<timeframe, signals, run, errors, scorer>>

Next ==
    \/ \E label \in BuyLabels, close \in EntryPrices : StoreSignal(label, close)
    \/ \E current_price \in Prices \cup {NoPrice},
          current_signal \in SignalLabels \cup {NoText} :
            ProcessAllEntries(current_price, current_signal)

Spec == Init /\ [][Next]_vars

-----------------------------------------------------------------------------
(* Serial runs over a backlog of signals.  The signal runner stores one     *)
(* signal per candle, up to `limit` candles per call                        *)
(* (SignalRunner.process_symbol_timeframe); the updater then runs.  All     *)
(* rows of the signals table of the stream are kept here, so the latest     *)
(* signal a run reads is the label of the newest row.                       *)

\* default `limit` of SignalRunner.get_candles_without_signals
CandleLimit == 100

\* get_latest_signal on the stored rows: ORDER BY datetime DESC LIMIT 1
LatestSignal ==
    IF signals = <<>> THEN NoText ELSE signals[Len(signals)].signal

\* SignalRunner.store_signal for one candle
StoreOneSignal(label, close) ==
    /\ Len(signals) < MaxSingleSignals
    /\ signals' = Append(signals, SignalRow(label, close, timeframe))
    /\ UNCHANGED <<timeframe, entry_tracking, run, errors, scorer>>

\* SignalRunner.process_symbol_timeframe over CandleLimit candles that all
\* score to the same label
ProcessSymbolTimeframe(label, close) ==
    /\ Len(signals) + CandleLimit <= MaxStoredSignals
    /\ signals' = signals \o [k \in 1..CandleLimit |->
                                 SignalRow(label, close, timeframe)]
    /\ UNCHANGED <<timeframe, entry_tracking, run, errors, scorer>>

NextBacklog ==
    \/ \E label \in BacklogLabels, close \in EntryPrices :
          StoreOneSignal(label, close)
    \/ \E label \in BacklogLabels, close \in EntryPrices :
          ProcessSymbolTimeframe(label, close)
    \/ \E current_price \in BacklogPrices \cup {NoPrice} :
          ProcessAllEntries(current_price, LatestSignal)

SpecBacklog == Init /\ [][NextBacklog]_vars

-----------------------------------------------------------------------------
(* Runs in flight at the same time.  A run is the sequence of statements    *)
(* of process_all_entries; each statement that reads or writes the database *)
(* is one step, and the steps of two runs interleave.  Every query runs in  *)
(* its own connection and every write is committed at once.                 *)

\* get_active_entries as the list the loop iterates: id and row, newest
\* first (ORDER BY entry_datetime DESC)
ActiveEntryList ==
    Bind(SelectSeq(NewestFirst,
                   LAMBDA id : \E i \in get_active_entries(entry_tracking) :
                                  entry_tracking[i].signal_id = id),
         LAMBDA ids :
            [k \in DOMAIN ids |->
                LET i == CHOOSE i \in get_active_entries(entry_tracking) :
                            entry_tracking[i].signal_id = ids[k]
                IN  [id |-> i, row |-> entry_tracking[i]]])

\* new_signals = self.get_new_entry_signals()
GetNewEntrySignals(r) ==
    /\ run[r].pc = "idle"
    /\ \A i \in DOMAIN entry_tracking :
          (entry_tracking[i].active
             /\ entry_tracking[i].validation_status = "VALIDATING")
          => entry_tracking[i].validation_candles_count < MaxValidationTicks
    /\ run' = [run EXCEPT ![r] = [pc |-> "create",
                                  new_signals |-> get_new_entry_signals,
                                  active_entries |-> <<>>]]
    /\ UNCHANGED <<timeframe, signals, entry_tracking, errors, scorer>>

\* one iteration of "for signal in new_signals": create_entry.  The INSERT
\* of a signal_id that already has a row raises; create_entry catches it,
\* prints "Error creating entry" and returns False.
CreateEntry(r) ==
    /\ run[r].pc = "create"
    /\ run[r].new_signals # <<>>
    /\ LET signal_id == Head(run[r].new_signals)
       IN  /\ entry_tracking' = InsertEntry(entry_tracking, signal_id)
           /\ errors' = IF SignalIdTaken(entry_tracking, signal_id)
                          THEN errors \cup {<<r, signal_id>>}
                          ELSE errors
    /\ run' = [run EXCEPT ![r].new_signals = Tail(@)]
    /\ UNCHANGED <<timeframe, signals, scorer>>

\* active_entries = self.get_active_entries()
GetActiveEntries(r) ==
    /\ run[r].pc = "create"
    /\ run[r].new_signals = <<>>
    /\ run' = [run EXCEPT ![r] =
                  IF ActiveEntryList = <<>> THEN IdleRun
                  ELSE [pc |-> "update", new_signals |-> <<>>,
                        active_entries |-> ActiveEntryList]]
    /\ UNCHANGED <<timeframe, signals, entry_tracking, errors, scorer>>

\* one iteration of "for entry in active_entries": the entry is skipped, or
\* raises and ends the run, or is processed from the row as it was read and
\* written back whole by update_entry_in_db (WHERE id = :id)
ProcessEntry(r, current_price, current_signal) ==
    /\ run[r].pc = "update"
    /\ LET entry == Head(run[r].active_entries)
           rest == Tail(run[r].active_entries)
           raises == /\ current_price # NoPrice /\ current_signal # NoText
                     /\ entry.row.entry_price = NoPrice
       IN  /\ entry_tracking' =
                 IF raises THEN entry_tracking
                 ELSE [entry_tracking EXCEPT ![entry.id] =
                          UpdateEntry(entry.row, current_price, current_signal)]
           /\ run' = [run EXCEPT ![r] =
                         IF raises \/ rest = <<>> THEN IdleRun
                         ELSE [@ EXCEPT !.active_entries = rest]]
    /\ UNCHANGED <<timeframe, signals, errors, scorer>>

NextOverlap ==
    \/ \E label \in BuyLabels, close \in EntryPrices : StoreSignal(label, close)
    \/ \E r \in Runs : GetNewEntrySignals(r)
    \/ \E r \in Runs : CreateEntry(r)
    \/ \E r \in Runs : GetActiveEntries(r)
    \/ \E r \in Runs, current_price \in OverlapPrices,
          current_signal \in OverlapSignals :
            ProcessEntry(r, current_price, current_signal)

InitOverlap == Init /\ timeframe \in OverlapTimeframes

SpecOverlap == InitOverlap /\ [][NextOverlap]_vars

-----------------------------------------------------------------------------
(* Serial runs over two streams.  Each stream has its own candles and       *)
(* signals, so a run reads a price and a signal per stream.                 *)

\* SignalGenerator.store_signal of a BUY-class signal of stream tf
StoreStreamSignal(label, close, tf) ==
    /\ Len(signals) + 1 \in StreamSignalIds
    /\ signals' = Append(signals, SignalRow(label, close, tf))
    /\ UNCHANGED <<timeframe, entry_tracking, run, errors, scorer>>

\* One run of process_all_entries
ProcessAllStreams(price_of, signal_of) ==
    /\ \A i \in DOMAIN entry_tracking :
          (entry_tracking[i].active
             /\ entry_tracking[i].validation_status = "VALIDATING")
          => entry_tracking[i].validation_candles_count < MaxValidationTicks
    /\ \E created \in {CreateEntries} :
          entry_tracking' = UpdateEntriesOf(created, price_of, signal_of)
    /\ UNCHANGED <<timeframe, signals, run, errors, scorer>>

\* what the streams can report to a run
StreamPriceReports == [StreamTimeframes -> StreamPrices \cup {NoPrice}]
StreamSignalReports == [StreamTimeframes -> StreamSignals \cup {NoText}]

NextStreams ==
    \/ \E label \in StreamLabels, close \in StreamCloses,
          tf \in StreamTimeframes :
          StoreStreamSignal(label, close, tf)
    \/ \E price_of \in StreamPriceReports, signal_of \in StreamSignalReports :
          ProcessAllStreams(price_of, signal_of)

SpecStreams == InitOverlap /\ [][NextStreams]_vars

-----------------------------------------------------------------------------
(* The signal scorer on one candle: the settings are loaded at              *)
(* construction, the indicator row and the levels are what the queries      *)
(* return, and generate_signal is applied to them.                          *)

InitScorer ==
    /\ timeframe \in ScorerTimeframes
    /\ signals = <<>>
    /\ entry_tracking = <<>>
    /\ run = [r \in Runs |-> IdleRun]
    /\ errors = {}
    /\ settings \in ScorerSettings
    /\ data \in Snapshots
    /\ \E l \in LevelValues :
          /\ sr = [support |-> l[1], resistance |-> l[2]]
          /\ magic_line = l[3]
    /\ generated = Pending
    /\ candles = <<>>

\* SignalGenerator.generate_signal for the latest candle
GenerateSignal ==
    /\ generated = Pending
    /\ generated' = generate_signal(data, sr, magic_line, timeframe)
    /\ UNCHANGED <<timeframe, signals, entry_tracking, run, errors,
                   settings, data, sr, magic_line, candles>>

NextScorer == GenerateSignal

SpecScorer == InitScorer /\ [][NextScorer]_vars

-----------------------------------------------------------------------------
(* The signal scorer on a candle whose indicator row lacks optional columns *)

InitAbsent ==
    /\ timeframe \in ScorerTimeframes
    /\ signals = <<>>
    /\ entry_tracking = <<>>
    /\ run = [r \in Runs |-> IdleRun]
    /\ errors = {}
    /\ settings = DefaultSettings
    /\ data \in AbsentRows
    /\ \E l \in LevelValues :
          /\ sr = [support |-> l[1], resistance |-> l[2]]
          /\ magic_line = l[3]
    /\ generated = Pending
    /\ candles = <<>>

NextAbsent == GenerateSignal

SpecAbsent == InitAbsent /\ [][NextAbsent]_vars

-----------------------------------------------------------------------------
(* classify_signal applied to a score: the score, the class and the RSI of  *)
(* the row are drawn at the start, the settings are the defaults.           *)

\* scores from 0 to 45 in steps of one half
ScoreGrid == { Frac(n, 2) : n \in 0..90 }

\* the part of an indicator row classify_signal reads
RsiRows == { [candle_id |-> 1, rsi |-> rsi] : rsi \in RsiValues }

InitClassify ==
    /\ timeframe \in ScorerTimeframes
    /\ signals = <<>>
    /\ entry_tracking = <<>>
    /\ run = [r \in Runs |-> IdleRun]
    /\ errors = {}
    /\ settings = DefaultSettings
    /\ data \in RsiRows
    /\ sr = [support |-> NoPrice, resistance |-> NoPrice]
    /\ magic_line = NoPrice
    /\ \E score \in ScoreGrid :
          generated =
             [ signal |-> "pending", score_total |-> score,
               tf_type |-> SignalGenerator_classify_timeframe(timeframe).tf_type ]
    /\ candles = <<>>

\* SignalGenerator.classify_signal
ClassifySignal ==
    /\ generated.signal = "pending"
    /\ generated' =
          [generated EXCEPT
              !.signal = classify_signal(generated.score_total,
                                         generated.tf_type, data)]
    /\ UNCHANGED <<timeframe, signals, entry_tracking, run, errors,
                   settings, data, sr, magic_line, candles>>

NextClassify == ClassifySignal

SpecClassify == InitClassify /\ [][NextClassify]_vars

-----------------------------------------------------------------------------
(* The price-action bonus of one candle against the levels of its symbol    *)

\* closes of the candle
BonusPrices == {100, 101}

\* effective support and resistance (get_effective_sr reports 0.0 for an
\* unset level) just below, at and just above the closes
BonusLevels == {NoPrice, 97, 98, 99, 100, 101}

\* the magic line: get_magic_line reports None when no line is active
MagicLevels == BonusLevels \cup {Null}

InitBonus ==
    /\ timeframe \in ScorerTimeframes
    /\ signals = <<>>
    /\ entry_tracking = <<>>
    /\ run = [r \in Runs |-> IdleRun]
    /\ errors = {}
    /\ settings \in ScorerSettings
    /\ \E price \in BonusPrices : data = [HighRow EXCEPT !.current_price = price]
    /\ sr \in [support : BonusLevels, resistance : BonusLevels]
    /\ magic_line \in MagicLevels
    /\ generated = Pending
    /\ candles = <<>>

\* the bonus step of SignalGenerator.generate_signal
PriceActionBonus ==
    /\ generated = Pending
    /\ generated' =
          [ signal |-> "bonus",
            score_price_action_bonus |->
                calculate_price_action_bonus(data.current_price, sr.support,
                                             sr.resistance, magic_line) ]
    /\ UNCHANGED <<timeframe, signals, entry_tracking, run, errors,
                   settings, data, sr, magic_line, candles>>

NextBonus == PriceActionBonus

SpecBonus == InitBonus /\ [][NextBonus]_vars

-----------------------------------------------------------------------------
(* The live and the historical signal generator on the same candle          *)

\* no level set, and a resistance the close has broken
HistoricalLevels == { <<NoPrice, NoPrice, NoPrice>>, <<NoPrice, 99, NoPrice>> }

InitHistorical ==
    /\ timeframe \in ScorerTimeframes
    /\ signals = <<>>
    /\ entry_tracking = <<>>
    /\ run = [r \in Runs |-> IdleRun]
    /\ errors = {}
    /\ settings = DefaultSettings
    /\ data \in Snapshots
    /\ \E l \in HistoricalLevels :
          /\ sr = [support |-> l[1], resistance |-> l[2]]
          /\ magic_line = l[3]
    /\ generated = Pending
    /\ candles = <<>>

\* HistoricalSignalsGenerator.generate_signal_for_candle for the candle
GenerateHistoricalSignal ==
    /\ generated = Pending
    /\ generated' = generate_signal_for_candle(data, sr, magic_line, timeframe)
    /\ UNCHANGED <<timeframe, signals, entry_tracking, run, errors,
                   settings, data, sr, magic_line, candles>>

NextHistorical == GenerateSignal \/ GenerateHistoricalSignal

SpecHistorical == InitHistorical /\ [][NextHistorical]_vars

-----------------------------------------------------------------------------
(* The two timeframe classifiers on the same timeframe string               *)

\* leading integers of a timeframe string, around the 240 minute boundary
TimeframeNums == {1, 2, 3, 4, 5, 15, 30, 60, 120, 240, 241, 300}

\* last characters of a timeframe string; no rule names "M" (monthly)
TimeframeSuffixes == {"m", "h", "d", "W", "M"}

\* the strings "15m" .. "300M", and "D" and "W" on their own
TimeframeStrings ==
    [num : TimeframeNums, suffix : TimeframeSuffixes]
       \cup { [num |-> 0, suffix |-> "D"], [num |-> 0, suffix |-> "W"] }

\* the classifier has not run for the string
NotClassified == "NULL"

InitTimeframes ==
    /\ timeframe \in TimeframeStrings
    /\ signals = <<>>
    /\ entry_tracking = <<>>
    /\ run = [r \in Runs |-> IdleRun]
    /\ errors = {}
    /\ settings = DefaultSettings
    /\ data = NoData
    /\ sr = [support |-> NoPrice, resistance |-> NoPrice]
    /\ magic_line = NoPrice
    /\ generated = [ signal |-> "classes", scorer |-> NotClassified,
                     updater |-> NotClassified ]
    /\ candles = <<>>

\* tf_type, max_score = self.classify_timeframe(timeframe) in generate_signal
ScorerClassifies ==
    /\ generated.scorer = NotClassified
    /\ generated' =
          [generated EXCEPT
              !.scorer = SignalGenerator_classify_timeframe(timeframe).tf_type]
    /\ UNCHANGED <<timeframe, signals, entry_tracking, run, errors,
                   settings, data, sr, magic_line, candles>>

\* tf_type = self.classify_timeframe(entry['timeframe']) in the entry updater
UpdaterClassifies ==
    /\ generated.updater = NotClassified
    /\ generated' = [generated EXCEPT !.updater = classify_timeframe(timeframe)]
    /\ UNCHANGED <<timeframe, signals, entry_tracking, run, errors,
                   settings, data, sr, magic_line, candles>>

NextTimeframes == ScorerClassifies \/ UpdaterClassifies

SpecTimeframes == InitTimeframes /\ [][NextTimeframes]_vars

-----------------------------------------------------------------------------
(* The exit ladder of one entry as its peak rises                           *)

LadderEntries == {100, 1000, 3000}

\* peaks from the entry price to 12% above it, in steps of 0.1% of the entry
\* rounded down to a whole price, and the last whole price below the start
\* of each zone
LadderPeaks(entry_price) ==
    { entry_price + (k * entry_price) \div 1000 : k \in 0..120 }
       \cup { entry_price + (b * entry_price) \div 100 - 1 : b \in {1, 2, 5, 10} }

InitLadder ==
    /\ timeframe \in ScorerTimeframes
    /\ signals = <<>>
    /\ entry_tracking = <<>>
    /\ run = [r \in Runs |-> IdleRun]
    /\ errors = {}
    /\ settings = DefaultSettings
    /\ \E entry_price \in LadderEntries :
          \E peak_price \in LadderPeaks(entry_price) :
             data = [entry_price |-> entry_price, peak_price |-> peak_price]
    /\ sr = [support |-> NoPrice, resistance |-> NoPrice]
    /\ magic_line = NoPrice
    /\ generated = Pending
    /\ candles = <<>>

\* exit1, exit2, exit3 = self.calculate_exit_levels(entry_price, peak_price)
CalculateExitLevels ==
    /\ generated = Pending
    /\ generated' =
          [ signal |-> "levels",
            exits |-> calculate_exit_levels(data.entry_price, data.peak_price) ]
    /\ UNCHANGED <<timeframe, signals, entry_tracking, run, errors,
                   settings, data, sr, magic_line, candles>>

NextLadder == CalculateExitLevels

SpecLadder == InitLadder /\ [][NextLadder]_vars

-----------------------------------------------------------------------------
(* Signal generation over the candles of one stream: the indicator runner   *)
(* adds candles, SignalRunner.process_symbol_timeframe scores the candles   *)
(* that have no signal, generate_signals_for_symbols scores the latest      *)
(* candle again, and the levels move in between.                            *)

\* candles of the stream
MaxCandles == 3

\* indicator rows of a batch: complete, RSI NaN, RSI NULL, histogram NULL
BatchRows ==
    { HighRow, [HighRow EXCEPT !.rsi = NaN], [HighRow EXCEPT !.rsi = Null],
      [HighRow EXCEPT !.macd_histogram = Null] }

\* levels between runs: none, and a resistance the close has broken
BatchLevels == { <<NoPrice, NoPrice, NoPrice>>, <<NoPrice, 99, NoPrice>> }

\* the row of the signals table that holds a written record: plain storage,
\* every column reads back as the value written
SignalsRow(signal_data) == signal_data

\* INSERT INTO signals with no conflict clause
store_signal_insert(table, signal_data) ==
    Append(table, SignalsRow(signal_data))

\* INSERT INTO signals ... ON CONFLICT (candle_id) DO UPDATE SET every column
store_signal(table, signal_data) ==
    IF \E i \in DOMAIN table : table[i].candle_id = signal_data.candle_id
    THEN [ i \in DOMAIN table |->
             IF table[i].candle_id = signal_data.candle_id
             THEN SignalsRow(signal_data) ELSE table[i] ]
    ELSE Append(table, SignalsRow(signal_data))

\* candles with indicators (rsi IS NOT NULL) and no signal, oldest first
get_candles_without_signals(table) ==
    Bind({ table[i].candle_id : i \in DOMAIN table },
         LAMBDA signalled :
            Limit(SelectSeq([c \in DOMAIN candles |-> c],
                            LAMBDA c : /\ candles[c].rsi # Null
                                       /\ c \notin signalled),
                  CandleLimit))

\* the loop of process_symbol_timeframe giving up the batch when its first
\* candle yields no signal
StoreGenerated_break(table, pending) ==
    Bind([k \in DOMAIN pending |->
            generate_signal(candles[pending[k]], sr, magic_line, timeframe)],
         LAMBDA results :
            table \o SelectSeq([k \in DOMAIN results |->
                                   IF results[k] = NoSignal THEN NoSignal
                                   ELSE SignalsRow(results[k])],
                               LAMBDA r : /\ r # NoSignal
                                          /\ results[1] # NoSignal))

\* the loop of process_symbol_timeframe: every pending candle is scored, and
\* a result that is not None is stored; the pending candles are distinct and
\* have no row, so each store appends
StoreGenerated(table, pending) ==
    Bind([k \in DOMAIN pending |->
            generate_signal(candles[pending[k]], sr, magic_line, timeframe)],
         LAMBDA results :
            table \o SelectSeq([k \in DOMAIN results |->
                                   IF results[k] = NoSignal THEN NoSignal
                                   ELSE SignalsRow(results[k])],
                               LAMBDA r : r # NoSignal))

process_symbol_timeframe(table) ==
    StoreGenerated(table, get_candles_without_signals(table))

InitBatch ==
    /\ timeframe \in ScorerTimeframes
    /\ signals = <<>>
    /\ entry_tracking = <<>>
    /\ run = [r \in Runs |-> IdleRun]
    /\ errors = {}
    /\ settings = DefaultSettings
    /\ data = NoData
    /\ sr = [support |-> NoPrice, resistance |-> NoPrice]
    /\ magic_line = NoPrice
    /\ generated = Pending
    /\ candles = <<>>

\* IndicatorRunner.store_indicators for a new candle
StoreIndicators(d) ==
    /\ Len(candles) < MaxCandles
    /\ candles' = Append(candles, [d EXCEPT !.candle_id = Len(candles) + 1])
    /\ UNCHANGED <<timeframe, signals, entry_tracking, run, errors,
                   settings, data, sr, magic_line, generated>>

\* SignalRunner.process_symbol_timeframe
ProcessPendingCandles ==
    /\ signals' = process_symbol_timeframe(signals)
    /\ UNCHANGED <<timeframe, entry_tracking, run, errors, scorer>>

\* SignalGenerator.generate_signals_for_symbols: the latest candle is scored
\* and the result, if any, stored
GenerateSignalsForSymbols ==
    /\ candles # <<>>
    /\ \E signal_data \in {generate_signal(candles[Len(candles)], sr,
                                           magic_line, timeframe)} :
          /\ data' = candles[Len(candles)]
          /\ generated' = signal_data
          /\ signals' = IF signal_data # NoSignal
                        THEN store_signal(signals, signal_data)
                        ELSE signals
    /\ UNCHANGED <<timeframe, entry_tracking, run, errors,
                   settings, sr, magic_line, candles>>

\* the support/resistance calculator and the magic line report new levels
ChangeLevels(l) ==
    /\ sr' = [support |-> l[1], resistance |-> l[2]]
    /\ magic_line' = l[3]
    /\ UNCHANGED <<timeframe, signals, entry_tracking, run, errors,
                   settings, data, generated, candles>>

NextBatch ==
    \/ \E d \in BatchRows : StoreIndicators(d)
    \/ ProcessPendingCandles
    \/ GenerateSignalsForSymbols
    \/ \E l \in BatchLevels : ChangeLevels(l)

SpecBatch == InitBatch /\ [][NextBatch]_vars

------------------------------------------------------------------------------
(* Repeated runs over a fixed candle table *)

(* The scheduler calls process_symbol_timeframe once per cycle.  Between     *)
(* cycles with no new candle the candles and indicators tables stay as they  *)
(* are, and only the signals table changes.  The table starts with a run of  *)
(* older candles whose indicator row has an RSI and no MACD histogram (the   *)
(* MACD calculator returned no frame for them), followed by candles whose    *)
(* indicator row is complete.                                                 *)

\* most older candles without a MACD histogram; one more than the batch
MaxOlder == 101

\* most newer candles with a complete indicator row
MaxNewer == 2

\* the candle table: `older` rows without histogram, then `newer` complete
PendingTable(older, newer) ==
    [ c \in 1..(older + newer) |->
        IF c <= older
        THEN [HighRow EXCEPT !.macd_histogram = Null, !.candle_id = c]
        ELSE [HighRow EXCEPT !.candle_id = c] ]

InitPending ==
    /\ timeframe \in ScorerTimeframes
    /\ signals = <<>>
    /\ entry_tracking = <<>>
    /\ run = [r \in Runs |-> IdleRun]
    /\ errors = {}
    /\ settings = DefaultSettings
    /\ data = NoData
    /\ sr = [support |-> NoPrice, resistance |-> NoPrice]
    /\ magic_line = NoPrice
    /\ generated = Pending
    /\ \E older \in 0..MaxOlder, newer \in 1..MaxNewer :
          candles = PendingTable(older, newer)

\* run_automation step 3, cycle after cycle
NextPending == ProcessPendingCandles

\* a run would add a row to the signals table
PendingRunStores == process_symbol_timeframe(signals) # signals

SpecPending == InitPending /\ [][NextPending]_vars

-----------------------------------------------------------------------------
(* Properties.  A "tick" of a row is UpdateEntry applied to it with an      *)
(* available price and signal; the rows a run updates are those of          *)
(* CreateEntries (the table after step 1).  Tick properties are stated for  *)
(* every reachable table and every input a run can read.                    *)

Max2(a, b) == IF a < b THEN b ELSE a
Min2(a, b) == IF a < b THEN a ELSE b

\* active rows of the table a run updates, by validation_status
TickRows(status) ==
    { i \in DOMAIN CreateEntries :
         CreateEntries[i].active /\ CreateEntries[i].validation_status = status }

ExitSignals == {"CAUTION", "SELL"}

HitFlags(row) == <<row.exit_1_hit, row.exit_2_hit, row.exit_3_hit>>

StatusRank(exit_status) ==
    CASE exit_status = "ACTIVE" -> 0
      [] exit_status = "EXIT-1" -> 1
      [] exit_status = "EXIT-2" -> 2
      [] exit_status = "EXIT-3" -> 3
      [] exit_status = "EXITED" -> 4

\* the duration a timeframe string denotes, in minutes
TimeframeMinutes(tf) ==
    CASE tf.suffix = "m" -> tf.num
      [] tf.suffix = "h" -> tf.num * 60
      [] tf.suffix \in {"d", "D"} -> Max2(tf.num, 1) * 1440
      [] tf.suffix \in {"w", "W"} -> Max2(tf.num, 1) * 10080

\* C1: once an entry has active = false, no run changes any field of it.
C1_InactiveIsAbsorbing ==
    [][\A i \in DOMAIN entry_tracking :
          ~entry_tracking[i].active
          => /\ i \in DOMAIN entry_tracking'
             /\ entry_tracking'[i] = entry_tracking[i]]_vars

C1_Witness ==
    \E i \in DOMAIN entry_tracking :
        /\ ~entry_tracking[i].active
        /\ entry_tracking[i].validation_status = "VALIDATED"
        /\ entry_tracking[i].exit_status = "EXITED"

\* C2: a tick of any active entry (VALIDATING included) with signal CAUTION
\* or SELL ends with active = false and exit_status = EXITED, whatever the
\* price.
C2_ExitSignalAlwaysExits ==
    \A status \in {"VALIDATING", "VALIDATED"} :
      \A i \in TickRows(status), p \in Prices, s \in ExitSignals :
        LET post == UpdateEntry(CreateEntries[i], p, s)
        IN  ~post.active /\ post.exit_status = "EXITED"

\* C3: a tick of a VALIDATED active entry with signal SELL (CAUTION), at any
\* price and in any exit_status, ends with active = false, exit_status =
\* EXITED, exit_reason = SELL_SIGNAL (CAUTION_SIGNAL), and leaves the three
\* hit flags and the trailing-stop fields as they were.
C3_ValidatedSignalExit ==
    \A i \in TickRows("VALIDATED"), p \in Prices, s \in ExitSignals :
        LET row == CreateEntries[i]
            post == UpdateEntry(row, p, s)
        IN  /\ ~post.active
            /\ post.exit_status = "EXITED"
            /\ post.exit_reason =
                  (IF s = "SELL" THEN "SELL_SIGNAL" ELSE "CAUTION_SIGNAL")
            /\ HitFlags(post) = HitFlags(row)
            /\ post.trailing_stop_price = row.trailing_stop_price
            /\ post.trailing_stop_active = row.trailing_stop_active

C3_Witness ==
    \E i \in DOMAIN entry_tracking :
        /\ entry_tracking[i].validation_status = "VALIDATED"
        /\ ~entry_tracking[i].active
        /\ entry_tracking[i].exit_reason = "SELL_SIGNAL"
        /\ entry_tracking[i].exit_1_hit
        /\ ~entry_tracking[i].exit_2_hit
        /\ entry_tracking[i].exit_price < entry_tracking[i].peak_price

\* C4: a hit flag that is true stays true in every later state.
C4_HitFlagsMonotonic ==
    [][\A i \in DOMAIN entry_tracking :
          /\ i \in DOMAIN entry_tracking'
          /\ entry_tracking[i].exit_1_hit => entry_tracking'[i].exit_1_hit
          /\ entry_tracking[i].exit_2_hit => entry_tracking'[i].exit_2_hit
          /\ entry_tracking[i].exit_3_hit => entry_tracking'[i].exit_3_hit]_vars

C4_Witness ==
    \E i \in DOMAIN entry_tracking :
        /\ entry_tracking[i].recovery_attempt
        /\ entry_tracking[i].exit_status = "ACTIVE"
        /\ entry_tracking[i].exit_1_hit

\* C5: an entry is created with peak_price equal to the signal's price, a
\* processed tick at price p leaves peak_price = max(peak_price, p) (also on
\* a terminal-exit tick), and a run that does not process the entry leaves
\* peak_price alone; so peak_price never decreases and is the maximum of the
\* creation price and the prices of the processed ticks.
C5_PeakIsRunningMax ==
    \A i \in DOMAIN CreateEntries :
        LET row == CreateEntries[i]
        IN  /\ i \notin DOMAIN entry_tracking
                => row.peak_price = signals[row.signal_id].current_price
            /\ \A p \in Prices \cup {NoPrice},
                  s \in SignalLabels \cup {NoText} :
                LET post == UpdateEntries(CreateEntries, p, s)[i]
                    ticked == /\ row.active
                              /\ p # NoPrice /\ s # NoText
                              /\ row.validation_status
                                    \in {"VALIDATING", "VALIDATED"}
                IN  post.peak_price =
                        IF ticked THEN Max2(row.peak_price, p)
                                  ELSE row.peak_price

C5_Witness ==
    \E i \in DOMAIN entry_tracking :
        /\ entry_tracking[i].peak_price > entry_tracking[i].entry_price
        /\ entry_tracking[i].exit_price # NoPrice
        /\ entry_tracking[i].exit_price < entry_tracking[i].peak_price

\* C6: every stored row has max_profit_pct = (peak_price - entry_price) /
\* entry_price * 100.
C6_MaxProfitFromPeak ==
    \A i \in DOMAIN entry_tracking :
        entry_tracking[i].max_profit_pct =
            Frac((entry_tracking[i].peak_price - entry_tracking[i].entry_price)
                    * 100,
                 entry_tracking[i].entry_price)

\* C7: a tick of a VALIDATING active entry makes it VALIDATED exactly when
\* the peak (the tick's price included) is at least 1.0% above entry_price,
\* for both classes; the entry then has exit_status = ACTIVE and stays
\* active.  No VALIDATING active entry has reached that peak before.
C7_ValidatedAtOnePercent ==
    \A i \in TickRows("VALIDATING") :
        LET row == CreateEntries[i]
            Reached(peak) ==
                (peak - row.entry_price) * 100 >= 1 * row.entry_price
        IN  /\ ~Reached(row.peak_price)
            /\ \A p \in Prices, s \in SignalLabels :
                 LET post == UpdateEntry(row, p, s)
                 IN  IF Reached(Max2(row.peak_price, p))
                       THEN /\ post.validation_status = "VALIDATED"
                            /\ post.exit_status = "ACTIVE"
                            /\ post.active
                       ELSE post.validation_status # "VALIDATED"

C7_Witness ==
    \E i \in DOMAIN entry_tracking :
        /\ entry_tracking[i].validation_status = "VALIDATED"
        /\ entry_tracking[i].exit_status = "ACTIVE"
        /\ entry_tracking[i].active
        /\ entry_tracking[i].validation_candles_count > 1
        /\ classify_timeframe(entry_tracking[i].timeframe) = "Swing"

\* C8: a tick of a VALIDATING active entry invalidates it with PRICE_DROP
\* (INVALID, EXITED, active = false) exactly when the lowest price seen is
\* at or below entry_price minus the threshold of the timeframe's class:
\* 1.0% up to 240 minutes, 2.0% beyond.
PriceDropThreshold(tf) == IF TimeframeMinutes(tf) <= 240 THEN 1 ELSE 2

C8_PriceDropAtClassThreshold ==
    \A i \in TickRows("VALIDATING"), p \in Prices, s \in SignalLabels :
        LET row == CreateEntries[i]
            post == UpdateEntry(row, p, s)
            lowest == IF row.recovery_low_price = NoPrice THEN p
                      ELSE Min2(row.recovery_low_price, p)
            dropped == (lowest - row.entry_price) * 100
                          <= -(PriceDropThreshold(row.timeframe) * row.entry_price)
        IN  dropped <=> /\ post.validation_status = "INVALID"
                        /\ post.exit_status = "EXITED"
                        /\ ~post.active
                        /\ post.exit_reason = "PRICE_DROP"

\* C9: after a tick of a VALIDATED entry that leaves it active, exit_status
\* is at least EXIT-N for every enabled tier N whose level (computed from
\* the peak including the tick's price) is at or above the tick's price.
C9_StatusCoversCrossedTier ==
    \A i \in TickRows("VALIDATED"), p \in Prices, s \in SignalLabels :
        LET row == CreateEntries[i]
            post == UpdateEntry(row, p, s)
            levels == calculate_exit_levels(row.entry_price,
                                            Max2(row.peak_price, p))
        IN  post.active
            => \A N \in 1..3 :
                  (RLt(R(0), levels[N]) /\ RLe(R(p), levels[N]))
                  => StatusRank(post.exit_status) >= N

\* C10: a tick of a VALIDATED active entry with exit_2_hit and not
\* exit_3_hit, a signal other than SELL and CAUTION and a price above the
\* current exit2 level ends with exit_status = EXIT-1, recovery_attempt =
\* true and exit_2_hit still true.
C10_RecoveryFromExit2 ==
    \A i \in TickRows("VALIDATED"), p \in Prices,
       s \in SignalLabels \ ExitSignals :
        LET row == CreateEntries[i]
            post == UpdateEntry(row, p, s)
            levels == calculate_exit_levels(row.entry_price,
                                            Max2(row.peak_price, p))
        IN  (row.exit_2_hit /\ ~row.exit_3_hit /\ RLt(levels[2], R(p)))
            => /\ post.exit_status = "EXIT-1"
               /\ post.recovery_attempt
               /\ post.exit_2_hit

C10_Witness ==
    \E i \in DOMAIN entry_tracking :
        /\ entry_tracking[i].active
        /\ entry_tracking[i].exit_2_hit
        /\ ~entry_tracking[i].exit_3_hit
        /\ entry_tracking[i].exit_status = "EXIT-1"
        /\ entry_tracking[i].recovery_attempt
        /\ entry_tracking[i].current_price > entry_tracking[i].exit_2_price

\* C11: a tick of a VALIDATED active entry whose exit_3_hit is true after the
\* tier evaluation (set before, or crossed on this tick) ends with active =
\* false and exit_status = EXITED when the signal is WATCH or CAUTION, and
\* leaves the entry active when the signal is none of SELL, CAUTION, WATCH.
C11_Exit3WeakSignalExits ==
    \A i \in TickRows("VALIDATED"), p \in Prices, s \in SignalLabels :
        LET row == CreateEntries[i]
            post == UpdateEntry(row, p, s)
            levels == calculate_exit_levels(row.entry_price,
                                            Max2(row.peak_price, p))
            hit3 == \/ row.exit_3_hit
                    \/ RLt(R(0), levels[3]) /\ RLe(R(p), levels[3])
        IN  hit3 => /\ s \in {"WATCH", "CAUTION"}
                       => ~post.active /\ post.exit_status = "EXITED"
                    /\ s \notin {"SELL", "CAUTION", "WATCH"}
                       => /\ post.active
                          /\ post.exit_status # "EXITED"
                          /\ post.exit_3_hit

\* an entry that recovered above exit3 (flag still set) and was then closed by
\* a WATCH tick
C11_Witness ==
    \E i \in DOMAIN entry_tracking :
        /\ ~entry_tracking[i].active
        /\ entry_tracking[i].exit_reason = "EXIT3_WATCH"
        /\ entry_tracking[i].exit_3_hit
        /\ entry_tracking[i].exit_price > entry_tracking[i].exit_3_price

\* BUY-class signals with no entry in a table
Unentered(table) ==
    { id \in DOMAIN signals :
         /\ signals[id].signal \in BuyLabels
         /\ \A i \in DOMAIN table : table[i].signal_id # id }

\* C12: over serial runs, no two entries share a signal_id, every entry's
\* entry_signal is A-BUY, BUY or EARLY-BUY, and a run that starts with an
\* entry for every BUY-class signal adds no row to entry_tracking.
C12_CreationIdempotent ==
    /\ [](\A i, j \in DOMAIN entry_tracking :
            /\ entry_tracking[i].signal_id = entry_tracking[j].signal_id
               => i = j
            /\ entry_tracking[i].entry_signal \in BuyLabels)
    /\ [][Unentered(entry_tracking) = {}
            => Len(entry_tracking') = Len(entry_tracking)]_vars

\* two runs have created entries, and a stored signal is not BUY-class
C12_Witness ==
    /\ Len(entry_tracking) > NewSignalLimit
    /\ Unentered(entry_tracking) = {}
    /\ \E id \in DOMAIN signals : signals[id].signal \notin BuyLabels

\* C13: the table after the creation step of a run holds an entry for every
\* stored BUY-class signal, however many had none before the run.
C13_EverySignalEntered ==
    \A created \in {CreateEntries} : Unentered(created) = {}

\* C14: when the creation steps of two runs interleave, no create_entry
\* records an error, no two entries share a signal_id, and each create_entry
\* leaves exactly one entry for its signal.
C14_RaceCreatesOnceSilently ==
    /\ [](errors = {})
    /\ [](\A i, j \in DOMAIN entry_tracking :
            entry_tracking[i].signal_id = entry_tracking[j].signal_id => i = j)
    /\ [][\A r \in Runs :
            (run[r].pc = "create" /\ run[r].new_signals # <<>>
               /\ run'[r] # run[r])
            => Cardinality({ i \in DOMAIN entry_tracking' :
                               entry_tracking'[i].signal_id
                                  = Head(run[r].new_signals) }) = 1]_vars

\* what C15 forbids of a step, for the entry with id i
Regresses(i) ==
    \/ ~entry_tracking[i].active /\ entry_tracking'[i].active
    \/ \E N \in 1..3 : HitFlags(entry_tracking[i])[N]
                         /\ ~HitFlags(entry_tracking'[i])[N]
    \/ entry_tracking'[i].peak_price < entry_tracking[i].peak_price

\* C15 as claimed: with two update runs in flight on the same entry, no step
\* returns it from active = false to active = true, resets an exit_N_hit
\* flag or lowers peak_price.
C15_OverlapNeverRegresses ==
    [][\A i \in DOMAIN entry_tracking : ~Regresses(i)]_vars

\* the row a run is about to process is the row as stored now
ReadIsCurrent(r) ==
    LET entry == Head(run[r].active_entries)
    IN  entry.row = entry_tracking[entry.id]

\* C15 as amended: the write of a run whose read of the row is still
\* current (no other run has written the entry since) never returns the
\* entry to active = true, resets a flag or lowers peak_price.
C15_CurrentReadNeverRegresses ==
    [][\A r \in Runs :
          (run[r].pc = "update" /\ run'[r] # run[r] /\ ReadIsCurrent(r))
          => ~Regresses(Head(run[r].active_entries).id)]_vars

\* both runs hold the entry; one has written an exit the other has not seen
C15_Witness ==
    \E r \in Runs :
        /\ run[r].pc = "update"
        /\ Head(run[r].active_entries).row.active
        /\ ~entry_tracking[Head(run[r].active_entries).id].active
        /\ entry_tracking[Head(run[r].active_entries).id].exit_3_hit

\* the rows a run over two streams updates, and what the run does to them
Unavailable(row, price_of, signal_of) ==
    price_of[row.timeframe] = NoPrice \/ signal_of[row.timeframe] = NoText

\* an active entry that makes the profit computation raise
Fails(row, price_of, signal_of) ==
    /\ row.active
    /\ ~Unavailable(row, price_of, signal_of)
    /\ row.entry_price = NoPrice

\* C16: in the update pass, an active entry whose stream reports no price
\* or no signal is stored after the run exactly as before it, and the other
\* active entries the loop reaches are processed and written whether they
\* come before or after the skipped one.
C16_UnavailableEntrySkipped ==
    \A created \in {CreateEntries} :
      \A price_of \in StreamPriceReports, signal_of \in StreamSignalReports :
        \A post \in {UpdateEntriesOf(created, price_of, signal_of)} :
          \A i \in DOMAIN created :
            LET row == created[i]
                reached ==
                    \A j \in DOMAIN created :
                        Fails(created[j], price_of, signal_of)
                        => created[j].signal_id < row.signal_id
            IN  /\ (row.active /\ Unavailable(row, price_of, signal_of))
                   => post[i] = row
                /\ (row.active /\ ~Unavailable(row, price_of, signal_of)
                      /\ reached)
                   => /\ post[i] = UpdateEntry(row, price_of[row.timeframe],
                                               signal_of[row.timeframe])
                      /\ row.validation_status = "VALIDATING"
                         => post[i].validation_candles_count
                               = row.validation_candles_count + 1

\* the newer entry is as created (its stream had nothing to report in any
\* run) and the older entry of the other stream has been processed
C16_Witness ==
    \E i, j \in DOMAIN entry_tracking :
        /\ entry_tracking[i].signal_id > entry_tracking[j].signal_id
        /\ entry_tracking[i].timeframe # entry_tracking[j].timeframe
        /\ entry_tracking[i].active
        /\ entry_tracking[i].entry_price # NoPrice
        /\ entry_tracking[i].validation_candles_count = 0
        /\ entry_tracking[j].validation_status = "VALIDATED"

\* C17: when an active entry fails in the update pass, every other active
\* entry of the run whose stream reports a price and a signal is still
\* processed and written.
C17_FailureDoesNotStopOthers ==
    \A created \in {CreateEntries} :
      \A price_of \in StreamPriceReports, signal_of \in StreamSignalReports :
        \A post \in {UpdateEntriesOf(created, price_of, signal_of)} :
          \A i \in DOMAIN created :
            (/\ \E j \in DOMAIN created : Fails(created[j], price_of, signal_of)
             /\ created[i].active
             /\ ~Unavailable(created[i], price_of, signal_of)
             /\ created[i].entry_price # NoPrice)
            => post[i] = UpdateEntry(created[i],
                                     price_of[created[i].timeframe],
                                     signal_of[created[i].timeframe])

-----------------------------------------------------------------------------
(* Claims about the signal scorer.  They are stated on the states of        *)
(* SpecScorer after generate_signal has run: `generated` is what it         *)
(* returned for the indicator row `data`, the levels `sr` and `magic_line`, *)
(* the stream's `timeframe` and the loaded `settings`.                      *)

\* generate_signal returned a signal
Emitted == generated.signal \in SignalLabels

\* the sum calculate_total_score caps
RawTotal(result) ==
    RAdd(SumScores(result.scores), result.score_price_action_bonus)

\* C18: for every indicator row, price, levels and timeframe class, the
\* total score returned by calculate_total_score is at most 36 for Intraday
\* and at most 41 for Swing, whatever the bonus setting.
C18_TotalNeverAboveCeiling ==
    Emitted =>
       /\ generated.tf_type = "Intraday" => RLe(generated.score_total, R(36))
       /\ generated.tf_type = "Swing" => RLe(generated.score_total, R(41))
       /\ generated.score_total =
             calculate_total_score(generated.scores,
                                   generated.score_price_action_bonus,
                                   generated.tf_type)

\* the components and the bonus of a Swing candle sum to more than 41 and the
\* total is 41
C18_Witness ==
    /\ Emitted
    /\ generated.tf_type = "Swing"
    /\ RLt(R(41), RawTotal(generated))
    /\ generated.score_total = R(41)

\* C19: with the default price-action bonus of 2.0, the largest total score
\* over all indicator rows and levels is exactly 36 for an Intraday
\* timeframe and exactly 41 for a Swing timeframe: no input scores more and
\* some input scores exactly the ceiling.
C19_CeilingIsAchieved ==
    settings.price_action_bonus_points = 2 =>
       \A tf \in ScorerTimeframes :
          \E ceiling \in {R(SignalGenerator_classify_timeframe(tf).max_score)} :
             /\ \E d \in Snapshots, l \in LevelValues :
                   \E result \in
                        {generate_signal(d, [support |-> l[1],
                                             resistance |-> l[2]], l[3], tf)} :
                      /\ result.signal \in SignalLabels
                      /\ result.score_total = ceiling
             /\ \A d \in Snapshots, l \in LevelValues :
                   \E result \in
                        {generate_signal(d, [support |-> l[1],
                                             resistance |-> l[2]], l[3], tf)} :
                      result.signal \in SignalLabels
                         => RLe(result.score_total, ceiling)

\* C20: classify_signal never returns A-BUY or BUY for a row whose RSI is
\* below 30, for the score generate_signal computed and for every other
\* score, in the class of the timeframe; a score at or above the BUY
\* threshold (so also one at or above the A-BUY threshold) is then
\* classified EARLY-BUY.
C20_RsiGateBlocksTopTiers ==
    (Emitted /\ notna(data.rsi) /\ data.rsi < 30) =>
       /\ generated.signal \notin {"A-BUY", "BUY"}
       /\ RLe(R(Thresholds(generated.tf_type).buy), generated.score_total)
             => generated.signal = "EARLY-BUY"
       /\ \A score \in ScoreGrid :
             \E label \in {classify_signal(score, generated.tf_type, data)} :
                /\ label \notin {"A-BUY", "BUY"}
                /\ RLe(R(Thresholds(generated.tf_type).buy), score)
                      => label = "EARLY-BUY"

\* a row with RSI 25 whose score reaches the A-BUY threshold is EARLY-BUY
C20_Witness ==
    /\ Emitted
    /\ data.rsi = 25
    /\ RLe(R(Thresholds(generated.tf_type).aggressive_buy),
           generated.score_total)
    /\ generated.signal = "EARLY-BUY"

\* the order A-BUY > BUY > EARLY-BUY > WATCH > CAUTION > SELL
SignalRank(label) ==
    CASE label = "A-BUY" -> 5
      [] label = "BUY" -> 4
      [] label = "EARLY-BUY" -> 3
      [] label = "WATCH" -> 2
      [] label = "CAUTION" -> 1
      [] label = "SELL" -> 0

\* C21: with the default thresholds and a fixed RSI, classify_signal maps
\* every score to one of the six labels, and a higher score never yields a
\* lower-ranked label: the label of the classified score ranks at least as
\* high as that of every smaller score and at most as high as that of every
\* larger one.
C21_ClassifyMonotone ==
    generated.signal # "pending" =>
       /\ generated.signal \in SignalLabels
       /\ \A score \in ScoreGrid :
             \E other \in {classify_signal(score, generated.tf_type, data)} :
                /\ other \in SignalLabels
                /\ RLe(score, generated.score_total)
                      => SignalRank(other) <= SignalRank(generated.signal)
                /\ RLe(generated.score_total, score)
                      => SignalRank(generated.signal) <= SignalRank(other)

\* the score at the Intraday A-BUY threshold, classified A-BUY with RSI 45
C21_Witness ==
    /\ generated.signal = "A-BUY"
    /\ data.rsi = 45
    /\ generated.score_total = R(settings.intraday_aggressive_buy_threshold)

\* the columns of the scored row that are absent
Absent(f) ==
    IF f \in TextFields THEN data[f] = NoText ELSE ~notna(data[f])

\* the components of the scored row when column f holds the close, which
\* earns nothing
ScoresIgnoring(f) ==
    calculate_score_components([data EXCEPT ![f] = data.current_price],
                               generated.tf_type)

\* C22: when RSI and MACD histogram are present, generate_signal returns a
\* signal whatever other columns are absent, and the component that depends
\* on an absent column scores 0 (an absent EMA or SuperTrend adds nothing to
\* its stack).
C22_AbsentFieldScoresZero ==
    (generated # Pending /\ notna(data.rsi) /\ notna(data.macd_histogram)) =>
       /\ Emitted
       /\ Absent("macd_line") => generated.scores.macd = R(0)
       /\ Absent("bb_position") => generated.scores.bb = R(0)
       /\ Absent("vwap") => generated.scores.vwap = R(0)
       /\ Absent("volume_signal") => generated.scores.volume = R(0)
       /\ Absent("adx") => generated.scores.adx = R(0)
       /\ (Absent("di_plus") \/ Absent("di_minus"))
             => generated.scores.di = R(0)
       /\ (Absent("obv") \/ Absent("obv_ma")) => generated.scores.obv = R(0)
       /\ \A f \in {"ema_44", "ema_100", "ema_200"} :
             Absent(f)
                => generated.scores.ema_stack = ScoresIgnoring(f).ema_stack
       /\ \A f \in {"supertrend_1", "supertrend_2"} :
             Absent(f)
                => generated.scores.supertrend = ScoresIgnoring(f).supertrend

-----------------------------------------------------------------------------
(* Claims about signal generation over the candles of a stream              *)

\* the candle's row lacks RSI or MACD histogram
LacksRequired(c) ==
    ~notna(candles[c].rsi) \/ ~notna(candles[c].macd_histogram)

HasSignal(table, c) == \E i \in DOMAIN table : table[i].candle_id = c

\* C23: a candle whose RSI or MACD histogram is absent gets no signal and no
\* stored row, no error reaches the caller, and a run of
\* process_symbol_timeframe still stores a signal for every other pending
\* candle that scores.
C23_RequiredAbsentSkipsCandle ==
    /\ errors = {}
    /\ \A c \in DOMAIN candles :
          LacksRequired(c) =>
             /\ generate_signal(candles[c], sr, magic_line, timeframe) = NoSignal
             /\ ~HasSignal(signals, c)
    /\ \E after \in {process_symbol_timeframe(signals)} :
          \A c \in DOMAIN candles :
             /\ LacksRequired(c) => ~HasSignal(after, c)
             /\ generate_signal(candles[c], sr, magic_line, timeframe) # NoSignal
                   => HasSignal(after, c)

\* the oldest candle has a NaN RSI and stays without a signal while the two
\* candles after it have theirs
C23_Witness ==
    /\ Len(candles) = 3
    /\ candles[1].rsi = NaN
    /\ ~HasSignal(signals, 1)
    /\ HasSignal(signals, 2)
    /\ HasSignal(signals, 3)

\* the records generate_signal can hand to store_signal for the candles of
\* the stream, under any levels
StorableRecords ==
    { generate_signal(candles[c], [support |-> l[1], resistance |-> l[2]],
                      l[3], timeframe) :
        c \in DOMAIN candles, l \in BatchLevels } \ {NoSignal}

RowsOf(table, c) == { i \in DOMAIN table : table[i].candle_id = c }

\* C24: however often signals are stored, the table holds at most one row
\* per candle; storing a record leaves exactly one row for its candle, equal
\* to the record stored last, and no other row changes; storing the same
\* record again changes nothing.
C24_StoreIsUpsert ==
    /\ \A i, j \in DOMAIN signals :
          signals[i].candle_id = signals[j].candle_id => i = j
    /\ generated.signal \in SignalLabels
          => \E i \in DOMAIN signals : signals[i] = generated
    /\ \A record \in StorableRecords :
          \E stored \in {store_signal(signals, record)} :
             /\ \E i \in DOMAIN stored :
                   /\ RowsOf(stored, record.candle_id) = {i}
                   /\ stored[i] = record
             /\ \A i \in DOMAIN signals :
                   signals[i].candle_id # record.candle_id
                      => stored[i] = signals[i]
             /\ Len(stored) =
                   IF HasSignal(signals, record.candle_id)
                   THEN Len(signals) ELSE Len(signals) + 1
             /\ store_signal(stored, record) = stored

\* two candles have their rows, and the row of the latest candle differs
\* from what generate_signal returns for it under the levels of the moment:
\* the next store for that candle overwrites it
C24_Witness ==
    /\ Len(signals) = 2
    /\ HasSignal(signals, Len(candles))
    /\ \E i \in DOMAIN signals :
          /\ signals[i].candle_id = Len(candles)
          /\ signals[i] = generated
          /\ signals[i] # generate_signal(candles[Len(candles)], sr,
                                          magic_line, timeframe)

\* C25: the price-action bonus is exactly one of 0, 0.8, 0.9 and 1 times the
\* configured maximum, chosen by the first rule that matches in the order
\* breakout above resistance, bounce from support, crossing of the magic
\* line; a level that is zero or null matches no rule, and a price that
\* qualifies for both the breakout and the bounce earns the full bonus.
Breakout ==
    sr.resistance > 0 /\ data.current_price * 1000 >= sr.resistance * 1005

Bounce ==
    /\ sr.support > 0
    /\ data.current_price >= sr.support
    /\ data.current_price * 100 <= sr.support * 102

Crossing ==
    /\ magic_line \notin {NoPrice, Null}
    /\ data.current_price > magic_line
    /\ data.current_price * 100 <= magic_line * 102

C25_BonusFirstMatchingRule ==
    generated.signal = "bonus" =>
        LET bonus == generated.score_price_action_bonus
            max_bonus == settings.price_action_bonus_points
        IN  /\ bonus \in { R(0), Frac(8 * max_bonus, 10),
                            Frac(9 * max_bonus, 10), R(max_bonus) }
            /\ bonus = ( IF Breakout THEN R(max_bonus)
                         ELSE IF Bounce THEN Frac(8 * max_bonus, 10)
                         ELSE IF Crossing THEN Frac(9 * max_bonus, 10)
                         ELSE R(0) )
            /\ sr.resistance = NoPrice => ~Breakout
            /\ sr.support = NoPrice => ~Bounce
            /\ magic_line \in {NoPrice, Null} => ~Crossing

\* a close that is both a breakout and a bounce earned the full bonus
C25_Witness ==
    /\ generated.signal = "bonus"
    /\ Breakout /\ Bounce /\ Crossing
    /\ generated.score_price_action_bonus = R(settings.price_action_bonus_points)

-----------------------------------------------------------------------------
(* Claims about the trade levels of a signal                                *)

\* the stop and target multipliers of the signal's timeframe class
StopMult == IF generated.tf_type = "Intraday" THEN Frac(12, 10) ELSE R(2)
TargetMult == IF generated.tf_type = "Intraday" THEN R(2) ELSE R(4)

\* C26: every emitted signal has entry_price, stop_loss and target_price set
\* exactly when its label is A-BUY, BUY or EARLY-BUY; when set, the entry is
\* the close, the stop is the close minus ATR times the class multiplier and
\* the target the close plus ATR times the class multiplier, so that
\* stop_loss <= entry_price <= target_price.
C26_LevelsIffBuyClass ==
    Emitted =>
       /\ generated.entry_price # NoPrice <=> generated.signal \in BuyLabels
       /\ generated.stop_loss # RNone <=> generated.signal \in BuyLabels
       /\ generated.target_price # RNone <=> generated.signal \in BuyLabels
       /\ generated.signal \in BuyLabels =>
             /\ generated.entry_price = generated.current_price
             /\ generated.stop_loss =
                   RSub(R(data.current_price), RMul(R(data.atr), StopMult))
             /\ generated.target_price =
                   RAdd(R(data.current_price), RMul(R(data.atr), TargetMult))
             /\ RLe(generated.stop_loss, R(generated.entry_price))
             /\ RLe(R(generated.entry_price), generated.target_price)

-----------------------------------------------------------------------------
(* Claims about the timeframe class                                         *)

\* both classifiers have run for the timeframe string
BothClassified ==
    /\ generated.signal = "classes"
    /\ generated.scorer # NotClassified
    /\ generated.updater # NotClassified

\* C27: the signal scorer's classifier and the entry updater's classifier
\* return the same class, Intraday or Swing, for every timeframe string,
\* weekly ones included.
C27_ClassifiersAgree ==
    BothClassified =>
       /\ generated.scorer \in TfTypes
       /\ generated.updater = generated.scorer

\* the suffixes some rule of a classifier names
SupportedSuffixes == {"m", "h", "d", "D", "W"}

\* C28: a timeframe string whose suffix no classifier rule names is not
\* given a class by either classifier: the run fails with a configuration
\* error instead.
C28_UnknownSuffixFails ==
    (generated.signal = "classes" /\ timeframe.suffix \notin SupportedSuffixes) =>
       /\ generated.scorer \notin TfTypes
       /\ generated.updater \notin TfTypes

-----------------------------------------------------------------------------
(* Claims about the exit ladder                                             *)

\* exit1 followed by two cascades of drop2 and drop3 hundredths of a percent
Cascaded(exit1, drop2, drop3) ==
    << exit1,
       RMul(exit1, Frac(10000 - drop2, 10000)),
       RMul(RMul(exit1, Frac(10000 - drop2, 10000)), Frac(10000 - drop3, 10000)) >>

\* the ladder of the five zones for an entry and a peak
FiveZoneLadder(entry, peak) ==
    LET gain == peak - entry
    IN  IF gain * 100 < entry THEN <<R(0), R(0), R(0)>>
        ELSE IF gain * 100 < 2 * entry
          THEN <<R(entry), Frac(entry * 995, 1000), Frac(entry * 99, 100)>>
        ELSE IF gain * 100 < 5 * entry
          THEN Cascaded(Frac(2 * entry + gain, 2), 100, 100)
        ELSE IF gain * 100 < 10 * entry
          THEN Cascaded(Frac(10 * entry + 6 * gain, 10), 150, 100)
        ELSE Cascaded(RMax(Frac(10 * entry + 7 * gain, 10), Frac(peak * 98, 100)),
                      100, 100)

\* C29: calculate_exit_levels depends on the entry price and the peak price
\* only and returns the five-zone ladder: zeros below 1% peak profit, the
\* entry less 0, 0.5 and 1% from 1 to 2%, the entry plus 50% of the gain
\* with two 1% cascades from 2 to 5%, plus 60% with a 1.5% and a 1% cascade
\* from 5 to 10%, and from 10% the larger of the entry plus 70% of the gain
\* and 98% of the peak with two 1% cascades; for an entry of 100 and a peak
\* of 103 that is 101.5, 100.485 and 99.48015.
C29_FiveZoneLadder ==
    generated.signal = "levels" =>
       /\ generated.exits = FiveZoneLadder(data.entry_price, data.peak_price)
       /\ (data.entry_price = 100 /\ data.peak_price = 103) =>
             generated.exits =
                <<Frac(1015, 10), Frac(100485, 1000), Frac(9948015, 100000)>>

\* a ladder was computed in the 5-10% zone, with its 1.5% cascade
C29_Witness ==
    /\ generated.signal = "levels"
    /\ data.peak_price * 100 >= 105 * data.entry_price
    /\ data.peak_price * 100 < 110 * data.entry_price
    /\ generated.exits[2] = RMul(generated.exits[1], Frac(985, 1000))

\* C30: for a fixed entry price, exit1 does not decrease when the peak
\* increases, within a zone and across the boundaries at 1, 2, 5 and 10%.
C30_Exit1NonDecreasing ==
    generated.signal = "levels" =>
       \A higher \in LadderPeaks(data.entry_price) :
          higher >= data.peak_price =>
             RLe(generated.exits[1],
                 calculate_exit_levels(data.entry_price, higher)[1])

\* a ladder was computed for the last peak below the 5% boundary
C30_Witness ==
    /\ generated.signal = "levels"
    /\ (data.peak_price + 1) * 100 = 105 * data.entry_price
    /\ RLt(generated.exits[1],
           calculate_exit_levels(data.entry_price, data.peak_price + 1)[1])

\* n1/d1 <= n2/d2 for non-negative numerators and positive denominators,
\* by whole parts and then by the reciprocals of the remainders
RECURSIVE FracLe(_, _, _, _)
FracLe(n1, d1, n2, d2) ==
    IF n1 \div d1 # n2 \div d2 THEN n1 \div d1 < n2 \div d2
    ELSE IF n1 % d1 = 0 THEN TRUE
    ELSE IF n2 % d2 = 0 THEN FALSE
    ELSE FracLe(d2, n2 % d2, d1, n1 % d1)

\* level a is not above level b
LevelLe(a, b) == FracLe(a.num, a.den, b.num, b.den)

\* C31: for a fixed entry price, exit2 and exit3 do not decrease when the
\* peak increases, within a zone and across the zone boundaries, the 5%
\* boundary where the exit2 drop changes from 1% to 1.5% included.
C31_LowerTiersNonDecreasing ==
    generated.signal = "levels" =>
       \A higher \in LadderPeaks(data.entry_price) :
          higher >= data.peak_price =>
             \E later \in {calculate_exit_levels(data.entry_price, higher)} :
                /\ LevelLe(generated.exits[2], later[2])
                /\ LevelLe(generated.exits[3], later[3])

-----------------------------------------------------------------------------
(* Claims about the stored states of an entry                               *)

\* C32: validation_status only moves from VALIDATING to VALIDATED or from
\* VALIDATING to INVALID: a VALIDATED entry stays VALIDATED in every later
\* state, its terminal exit included, an INVALID entry stays INVALID, and an
\* INVALID entry always has active = false and exit_status = EXITED.
C32_ValidationStatusOneWay ==
    /\ [](\A i \in DOMAIN entry_tracking :
            /\ entry_tracking[i].validation_status
                  \in {"VALIDATING", "VALIDATED", "INVALID"}
            /\ entry_tracking[i].validation_status = "INVALID"
                  => /\ ~entry_tracking[i].active
                     /\ entry_tracking[i].exit_status = "EXITED")
    /\ [][\A i \in DOMAIN entry_tracking :
            /\ i \in DOMAIN entry_tracking'
            /\ entry_tracking[i].validation_status # "VALIDATING"
                  => entry_tracking'[i].validation_status
                        = entry_tracking[i].validation_status]_vars

\* a VALIDATED entry that crossed all three tiers left on a WATCH signal
C32_Witness ==
    \E i \in DOMAIN entry_tracking :
        /\ entry_tracking[i].validation_status = "VALIDATED"
        /\ ~entry_tracking[i].active
        /\ entry_tracking[i].exit_reason = "EXIT3_WATCH"

\* C33: in every stored state of every entry, active = false exactly when
\* exit_status = EXITED, and exactly then final_profit_pct, exit_reason and
\* exit_price are set; a final_profit_pct that is set is never written again.
C33_ExitFieldsSetOnce ==
    /\ [](\A i \in DOMAIN entry_tracking :
            LET row == entry_tracking[i]
            IN  /\ ~row.active <=> row.exit_status = "EXITED"
                /\ ~row.active <=> row.final_profit_pct # RNone
                /\ ~row.active <=> row.exit_reason # NoText
                /\ ~row.active <=> row.exit_price # NoPrice)
    /\ [][\A i \in DOMAIN entry_tracking :
            /\ i \in DOMAIN entry_tracking'
            /\ entry_tracking[i].final_profit_pct # RNone
                  => entry_tracking'[i].final_profit_pct
                        = entry_tracking[i].final_profit_pct]_vars

\* an entry left at its entry price: the final profit is set, to zero
C33_Witness ==
    \E i \in DOMAIN entry_tracking :
        /\ ~entry_tracking[i].active
        /\ entry_tracking[i].exit_status = "EXITED"
        /\ entry_tracking[i].exit_price = entry_tracking[i].entry_price
        /\ entry_tracking[i].final_profit_pct = R(0)

\* the price is strictly between the invalidation and the validation
\* threshold the updater applies to the row
InValidationBand(row, price) ==
    LET tf_type == classify_timeframe(row.timeframe)
        pct == ProfitPct(price, row.entry_price)
    IN  /\ RLt(RNeg(InvalidationPct(tf_type)), pct)
        /\ RLt(pct, ValidationPct(tf_type))

\* C34: the number of ticks spent VALIDATING causes no transition: a tick of
\* a VALIDATING entry whose prices, this tick's included, have stayed
\* strictly between minus the invalidation threshold and the validation
\* threshold, with a signal other than CAUTION, leaves it VALIDATING and
\* active and adds one to validation_candles_count, also when the count
\* already exceeds max_validation_candles.
C34_ValidationNeverTimesOut ==
    \A i \in TickRows("VALIDATING") :
        LET row == CreateEntries[i]
        IN  /\ InValidationBand(row, row.peak_price)
            /\ row.recovery_low_price # NoPrice
                  => InValidationBand(row, row.recovery_low_price)
            /\ \A p \in Prices, s \in SignalLabels \ {"CAUTION"} :
                  InValidationBand(row, p) =>
                     LET post == UpdateEntry(row, p, s)
                     IN  /\ post.validation_status = "VALIDATING"
                         /\ post.active
                         /\ post.exit_status = "ACTIVE"
                         /\ post.validation_candles_count
                               = row.validation_candles_count + 1

\* an entry still VALIDATING after more ticks than its validation window
C34_Witness ==
    \E i \in DOMAIN entry_tracking :
        /\ entry_tracking[i].validation_status = "VALIDATING"
        /\ entry_tracking[i].active
        /\ entry_tracking[i].validation_candles_count
              > entry_tracking[i].max_validation_candles

-----------------------------------------------------------------------------
(* Claims about the exit tiers of a validated entry                         *)

\* signals on which no tick of an entry with exit_3_hit is terminal
HoldSignals == SignalLabels \ {"SELL", "CAUTION", "WATCH"}

\* the row after n consecutive ticks at the same price and signal
RECURSIVE AfterTicks(_, _, _, _)
AfterTicks(row, n, current_price, current_signal) ==
    IF n = 0 THEN row
    ELSE AfterTicks(UpdateEntry(row, current_price, current_signal), n - 1,
                    current_price, current_signal)

\* C35: for a VALIDATED active entry with exit_3_hit set, consecutive
\* non-terminal ticks at a price above the current exit1 level make
\* exit_status retreat tier by tier: after at most three such ticks it shows
\* ACTIVE again.
C35_RecoversToActive ==
    \A i \in TickRows("VALIDATED"), p \in Prices, s \in HoldSignals :
        LET row == CreateEntries[i]
            levels == calculate_exit_levels(row.entry_price,
                                            Max2(row.peak_price, p))
        IN  (row.exit_3_hit /\ RLt(levels[1], R(p)))
            => \E n \in 1..3 :
                  AfterTicks(row, n, p, s).exit_status = "ACTIVE"

\* C36: in every reachable state the hit flags of an entry are nested
\* (exit_3_hit implies exit_2_hit implies exit_1_hit), the enabled levels of
\* its entry price and peak satisfy 0 < exit3 <= exit2 <= exit1 <= peak, and
\* a hit flag is set only on a VALIDATED entry whose peak is at least 1%
\* above the entry price.
C36_HitFlagsNested ==
    \A i \in DOMAIN entry_tracking :
        LET row == entry_tracking[i]
            levels == calculate_exit_levels(row.entry_price, row.peak_price)
        IN  /\ row.exit_3_hit => row.exit_2_hit
            /\ row.exit_2_hit => row.exit_1_hit
            /\ row.exit_1_hit
                  => /\ row.validation_status = "VALIDATED"
                     /\ (row.peak_price - row.entry_price) * 100
                           >= row.entry_price
            /\ levels[1] # R(0)
                  => /\ levels[3] # R(0)
                     /\ LevelLe(levels[3], levels[2])
                     /\ LevelLe(levels[2], levels[1])
                     /\ LevelLe(levels[1], R(row.peak_price))

\* an entry that crossed its three tiers on three different ticks
C36_Witness ==
    \E i \in DOMAIN entry_tracking :
        /\ entry_tracking[i].exit_3_hit
        /\ entry_tracking[i].exit_3_price < entry_tracking[i].exit_2_price
        /\ entry_tracking[i].exit_2_price < entry_tracking[i].exit_1_price

\* C37: the exit_reason of an entry that has left is PRICE_DROP,
\* CAUTION_SIGNAL, SELL_SIGNAL or EXIT3_WATCH: WATCH_PRICE_DROP and
\* EXIT3_CAUTION are never recorded, an earlier test of the same tick firing
\* first.
RecordedReasons ==
    {"PRICE_DROP", "CAUTION_SIGNAL", "SELL_SIGNAL", "EXIT3_WATCH"}

\* a close 3% under the entry price, beyond 1.1 times the Swing threshold
DeepDrop == {97}

C37_ReachableExitReasons ==
    /\ \A i \in DOMAIN entry_tracking :
          /\ entry_tracking[i].exit_reason \in RecordedReasons \cup {NoText}
          /\ ~entry_tracking[i].active
                => entry_tracking[i].exit_reason \in RecordedReasons
    /\ \A i \in TickRows("VALIDATING"), p \in DeepDrop, s \in SignalLabels :
          UpdateEntry(CreateEntries[i], p, s).exit_reason = "PRICE_DROP"

\* an Intraday entry invalidated 2% under its entry price, beyond 1.1 times
\* its invalidation threshold, with PRICE_DROP
C37_Witness ==
    \E i \in DOMAIN entry_tracking :
        /\ entry_tracking[i].validation_status = "INVALID"
        /\ entry_tracking[i].exit_reason = "PRICE_DROP"
        /\ classify_timeframe(entry_tracking[i].timeframe) = "Intraday"
        /\ entry_tracking[i].exit_price * 100 <= 98 * entry_tracking[i].entry_price

\* the ladder was computed for a peak at least 10% above the entry price
InZoneFive ==
    /\ generated.signal = "levels"
    /\ (data.peak_price - data.entry_price) * 100 >= 10 * data.entry_price

\* the entry price plus 70% of the gain
LockedSeventy ==
    Frac(10 * data.entry_price + 7 * (data.peak_price - data.entry_price), 10)

\* C38: for every entry price and every peak at 10% profit or more, exit1 is
\* exactly 98% of the peak: the 70% lock is never the larger operand of the
\* max, so exit1 is never more than 2% below the peak.
C38_ZoneFiveTrailsPeak ==
    InZoneFive =>
       /\ generated.exits[1] = Frac(data.peak_price * 98, 100)
       /\ RLt(LockedSeventy, Frac(data.peak_price * 98, 100))

\* a ladder at the start of zone 5: the lock is below the trail
C38_Witness ==
    /\ InZoneFive
    /\ (data.peak_price - data.entry_price) * 100 = 10 * data.entry_price
    /\ RLt(LockedSeventy, generated.exits[1])


\* C39: under repeated runs of process_symbol_timeframe with no new candle,
\* every candle whose indicator row has both an RSI and a MACD histogram
\* eventually has a row in the signals table, also when older candles with
\* an RSI and no histogram are selected again on every run.  The candle
\* table is fixed and a run is a function of the tables, so the runs reach
\* every such candle exactly when none is left without a row once a run no
\* longer stores anything.
C39_ScorableCandlesSignalled ==
    ~PendingRunStores =>
        \A c \in DOMAIN candles : ~LacksRequired(c) => HasSignal(signals, c)

====
